---- MODULE Spec2Model ----
(***************************************************************************)
(* A model of the qgb Game Boy emulator core: the MBC1 / ROM-only          *)
(* cartridges, the MMU address decoder with its boot-ROM overlay, the      *)
(* joypad/serial I/O handler, the timers and the CPU's fetch / decode /    *)
(* execute step with its cycle accounting.                                 *)
(*                                                                         *)
(* Rust structs are records with the fields' names; a Rust method is an    *)
(* operator from the receiver (and arguments) to the updated receiver.     *)
(* A failed assert!/unreachable! aborts the thread: the record's           *)
(* `panicked` field is set and no further operation is taken.              *)
(***************************************************************************)
EXTENDS Integers, Sequences, FiniteSets, TLC

VARIABLES
    mmu,      \* Mmu: boot_rom, boot_mode, cartridge, hram, wram, io
    timers,   \* Timers (system_clock, tima, tma, tac) with the InterruptRegisters
              \* (reg_ie, reg_if) handed to its methods as interrupt manager
    cpu,      \* Cpu: the registers and rw_cycles
    op        \* the last operation taken, with its arguments and its result

vars == <<mmu, timers, cpu, op>>

----------------------------------------------------------------------------
(* Fixed-width integers and bit operations                                 *)

Byte == 0..255

WrapU8(n) == n % 256

WrapU16(n) == n % 65536

\* u8/u16 `&`
RECURSIVE BitAnd(_, _)
BitAnd(x, y) ==
    IF x = 0 \/ y = 0 THEN 0
    ELSE (x % 2) * (y % 2) + 2 * BitAnd(x \div 2, y \div 2)

\* u8/u16 `|`
RECURSIVE BitOr(_, _)
BitOr(x, y) ==
    IF x = 0 THEN y
    ELSE IF y = 0 THEN x
    ELSE (IF x % 2 = 1 \/ y % 2 = 1 THEN 1 ELSE 0) + 2 * BitOr(x \div 2, y \div 2)

\* u8 `^`
RECURSIVE BitXor(_, _)
BitXor(x, y) ==
    IF x = 0 THEN y
    ELSE IF y = 0 THEN x
    ELSE ((x + y) % 2) + 2 * BitXor(x \div 2, y \div 2)

\* u8 `<<`: the bits shifted out are lost
Shl8(v, n) == (v * (2 ^ n)) % 256

\* u8 `>>`
Shr(v, n) == v \div (2 ^ n)

\* Bits::bit
bit(v, index) == (v \div (2 ^ index)) % 2 = 1

\* Bits::bits(start..=end) on a u8
bits(v, start, end) == Shr(Shl8(v, 7 - end), 7 - end + start)

\* Bits::set_bit
set_bit(v, index) == IF bit(v, index) THEN v ELSE v + 2 ^ index

\* Bits::reset_bit
reset_bit(v, index) == IF bit(v, index) THEN v - 2 ^ index ELSE v

\* A zero-initialised byte array, stored sparsely: the cells absent from the
\* domain hold zero
Load(mem, i, dflt) == IF i \in DOMAIN mem THEN mem[i] ELSE dflt

Store(mem, i, v) ==
    IF v = 0 THEN [j \in DOMAIN mem \ {i} |-> mem[j]] ELSE (i :> v) @@ mem

NoCells == << >>

----------------------------------------------------------------------------
(* Cartridge: header, CartridgeBase, RomOnly, Mbc1                         *)

ROM_BANK_SIZE == 16384

RAM_BANK_SIZE == 8192

ROM_BANK0_START == 0

ROM_BANK0_END == 16383

ROM_BANK1_START == 16384

ROM_BANK1_END == 32767

RAM_ENABLE_REG_END == 8191

ROM_BANK_REG_END == 16383

RAM_BANK_REG_END == 24575

BANK_MODE_SELECT_REG_END == 32767

CART_DEFAULT_READ_VALUE == 0

\* Header::parse, rom_banks: 2 * (1 << rom[ROM_SIZE]) for a size byte <= 0x08
HeaderRomBanks == {2 * (2 ^ n) : n \in 0..8}

\* Header::parse, ram_banks: the table 0x00, 0x02, 0x03, 0x04, 0x05
HeaderRamBanks == {0, 1, 4, 16, 8}

\* The ROM image `rom`: the byte at offset i of the image with seed `seed`.
\* Every bank holds different bytes at the same offset within the bank.
RomByte(seed, i) == (seed + 3 * i + 5 * (i \div ROM_BANK_SIZE)) % 256

\* CartridgeBase::new
CartridgeBaseNew(rom, header) ==
    [ rom         |-> rom,
      rom_bank0   |-> 0,
      rom_bank1   |-> 1,
      ram         |-> NoCells,
      ram_bank    |-> 0,
      ram_enabled |-> FALSE,
      header      |-> header,
      panicked    |-> FALSE ]

\* Mbc1::new, for a header with rom_banks <= 128 (otherwise RomError::Oversized)
Mbc1New(rom, rom_banks, ram_banks) ==
    LET large_rom == rom_banks >= 64
        fixed_ram_banks ==
            IF ram_banks > 4 THEN (IF large_rom THEN 1 ELSE 4)
            ELSE IF large_rom /\ ram_banks = 4 THEN 1
            ELSE ram_banks
        large_ram ==
            IF ram_banks > 4 THEN ~large_rom
            ELSE IF large_rom /\ ram_banks = 4 THEN FALSE
            ELSE ram_banks = 4
        rom_bank_mask ==
            CASE rom_banks = 2 -> 1
              [] rom_banks = 4 -> 3
              [] rom_banks = 8 -> 7
              [] rom_banks = 16 -> 15
              [] OTHER -> 31
        header == [rom_banks |-> rom_banks, ram_banks |-> fixed_ram_banks]
    IN  [ kind          |-> "Mbc1",
          rom_bank_reg  |-> 0,
          rom_bank_mask |-> rom_bank_mask,
          ram_bank_reg  |-> 0,
          bank_mode     |-> "Simple",
          large_rom     |-> large_rom,
          large_ram     |-> large_ram ] @@ CartridgeBaseNew(rom, header)

\* RomOnly::new, for a header with rom_banks = 2 (otherwise RomError::Oversized)
RomOnlyNew(rom, ram_banks) ==
    [ kind |-> "RomOnly" ] @@
    [ CartridgeBaseNew(rom, [rom_banks |-> 2, ram_banks |-> ram_banks])
        EXCEPT !.ram_enabled = (ram_banks # 0) ]

\* assert!(cond): the cartridge `c` goes on if cond holds, the thread panics if not
CartAssert(cond, c) == IF cond THEN c ELSE [c EXCEPT !.panicked = TRUE]

\* Mbc1::update_rom_bank0, up to its assert
Mbc1SetRomBank0(c) ==
    [c EXCEPT !.rom_bank0 =
        IF c.bank_mode = "Simple" THEN 0
        ELSE IF c.large_ram THEN 0
        ELSE Shl8(c.rom_bank_reg, 5)]

\* Mbc1::update_rom_bank1, up to its assert
Mbc1SetRomBank1(c) ==
    LET masked == BitAnd(c.rom_bank_reg, c.rom_bank_mask)
        bank == IF c.rom_bank_reg = 0 THEN masked + 1 ELSE masked
    IN  [c EXCEPT !.rom_bank1 =
            IF c.large_rom THEN BitAnd(bank, Shl8(c.ram_bank_reg, 5)) ELSE bank]

\* Mbc1::update_ram_bank, up to its assert
Mbc1SetRamBank(c) ==
    [c EXCEPT !.ram_bank =
        IF c.bank_mode = "Simple" THEN 0
        ELSE IF c.large_rom THEN 0
        ELSE c.rom_bank_reg]

\* Mbc1::update_banks: the three updates in order, each followed by its assert;
\* a failed assert leaves the later updates undone
Mbc1UpdateBanks(c) ==
    LET c0 == Mbc1SetRomBank0(c)
        c1 == Mbc1SetRomBank1(c0)
        c2 == Mbc1SetRamBank(c1)
    IN  IF ~(c0.rom_bank0 < c0.header.rom_banks) THEN CartAssert(FALSE, c0)
        ELSE IF ~(c1.rom_bank1 < c1.header.rom_banks) THEN CartAssert(FALSE, c1)
        ELSE CartAssert(c2.ram_bank < c2.header.ram_banks \/ c2.header.ram_banks = 0, c2)

\* A register write that enables RAM for the value 0x0A only, not for every
\* value with the low nibble 0xA
Mbc1WriteRegExactEnable(c, addr, value) ==
    IF addr <= RAM_ENABLE_REG_END THEN
        [c EXCEPT !.ram_enabled = (value = 10) /\ c.header.ram_banks # 0]
    ELSE IF addr <= ROM_BANK_REG_END THEN
        [c EXCEPT !.rom_bank_reg = BitAnd(value, 31)]
    ELSE IF addr <= RAM_BANK_REG_END THEN
        [c EXCEPT !.ram_bank_reg =
            IF c.large_ram \/ c.large_rom THEN BitAnd(value, 3) ELSE 0]
    ELSE IF c.large_ram \/ c.large_rom THEN
        [c EXCEPT !.bank_mode = IF BitAnd(value, 1) = 0 THEN "Simple" ELSE "Advanced"]
    ELSE c

\* Mbc1::write_rom, the register selected by the address
Mbc1WriteReg(c, addr, value) ==
    IF addr <= RAM_ENABLE_REG_END THEN
        [c EXCEPT !.ram_enabled = (BitAnd(value, 15) = 10) /\ c.header.ram_banks # 0]
    ELSE IF addr <= ROM_BANK_REG_END THEN
        [c EXCEPT !.rom_bank_reg = BitAnd(value, 31)]
    ELSE IF addr <= RAM_BANK_REG_END THEN
        [c EXCEPT !.ram_bank_reg =
            IF c.large_ram \/ c.large_rom THEN BitAnd(value, 3) ELSE 0]
    ELSE IF c.large_ram \/ c.large_rom THEN
        [c EXCEPT !.bank_mode = IF BitAnd(value, 1) = 0 THEN "Simple" ELSE "Advanced"]
    ELSE c

\* CartridgeInterface::write_rom for Mbc1 (register write, then update_banks)
\* and for RomOnly (CartridgeBase::write_rom: a warning, nothing changes)
CartWriteRom(c, addr, value) ==
    IF c.kind = "Mbc1" THEN Mbc1UpdateBanks(Mbc1WriteReg(c, addr, value)) ELSE c

\* CartridgeBase::read_rom: whether its bank assert holds
CartReadRomOk(c, addr) ==
    IF addr <= ROM_BANK0_END THEN c.rom_bank0 < c.header.rom_banks
    ELSE c.rom_bank1 < c.header.rom_banks

\* CartridgeBase::read_rom: the byte read
CartReadRom(c, addr) ==
    IF addr <= ROM_BANK0_END
    THEN RomByte(c.rom, ROM_BANK_SIZE * c.rom_bank0 + (addr - ROM_BANK0_START))
    ELSE RomByte(c.rom, ROM_BANK_SIZE * c.rom_bank1 + (addr - ROM_BANK1_START))

\* CartridgeBase::read_ram: whether its bank assert holds (it is reached only
\* with RAM present and enabled)
CartReadRamOk(c) ==
    (c.header.ram_banks # 0 /\ c.ram_enabled) => c.ram_bank < c.header.ram_banks

\* CartridgeBase::read_ram: the byte read
CartReadRam(c, addr) ==
    IF c.header.ram_banks # 0 /\ c.ram_enabled
    THEN Load(c.ram, RAM_BANK_SIZE * c.ram_bank + addr, 0)
    ELSE CART_DEFAULT_READ_VALUE

\* A write_ram that stores the byte whether or not the RAM is enabled
CartWriteRamAlways(c, addr, value) ==
    IF c.header.ram_banks # 0
    THEN IF c.ram_bank < c.header.ram_banks
         THEN [c EXCEPT !.ram = Store(@, RAM_BANK_SIZE * c.ram_bank + addr, value)]
         ELSE CartAssert(FALSE, c)
    ELSE c

\* CartridgeBase::write_ram
CartWriteRam(c, addr, value) ==
    IF c.header.ram_banks # 0 /\ c.ram_enabled
    THEN IF c.ram_bank < c.header.ram_banks
         THEN [c EXCEPT !.ram = Store(@, RAM_BANK_SIZE * c.ram_bank + addr, value)]
         ELSE CartAssert(FALSE, c)
    ELSE c

----------------------------------------------------------------------------
(* IoHandler: joypad and serial transfer                                   *)

\* Joypad::new
JoypadNew ==
    [ up |-> FALSE, down |-> FALSE, left |-> FALSE, right |-> FALSE,
      a |-> FALSE, b |-> FALSE, start |-> FALSE, select |-> FALSE ]

\* IoHandler::new
IoHandlerNew ==
    [ joy |-> 0, sb |-> 0, sc |-> 0, sent_bytes |-> << >>,
      remaining_cycles |-> 0, joypad |-> JoypadNew ]

\* The condition taken the other way round: the bit set when cond holds
set_bit_condition_inverted(value, index, cond) ==
    IF cond THEN set_bit(value, index) ELSE reset_bit(value, index)

\* set_bit_condition
set_bit_condition(value, index, cond) ==
    IF cond THEN reset_bit(value, index) ELSE set_bit(value, index)

\* IoHandler::compute_joy
compute_joy(h) ==
    IF ~bit(h.joy, 5) THEN
        set_bit_condition(set_bit_condition(set_bit_condition(set_bit_condition(
            h.joy, 3, h.joypad.start), 2, h.joypad.select), 1, h.joypad.b), 0, h.joypad.a)
    ELSE IF ~bit(h.joy, 4) THEN
        set_bit_condition(set_bit_condition(set_bit_condition(set_bit_condition(
            h.joy, 3, h.joypad.down), 2, h.joypad.up), 1, h.joypad.left), 0, h.joypad.right)
    ELSE h.joy

\* Joypad::button_pressed
button_pressed(joypad, button) == [joypad EXCEPT ![button] = TRUE]

\* Joypad::button_released
button_released(joypad, button) == [joypad EXCEPT ![button] = FALSE]

\* IoHandler::read, for addr in 0xFF00..=0xFF02
IoRead(h, addr) ==
    IF addr = 65280 THEN compute_joy(h)
    ELSE IF addr = 65281 THEN h.sb
    ELSE h.sc

\* IoHandler::write, for addr in 0xFF00..=0xFF02
IoWrite(h, addr, value) ==
    IF addr = 65280 THEN [h EXCEPT !.joy = BitAnd(value, 48)]
    ELSE IF addr = 65281 THEN [h EXCEPT !.sb = value]
    ELSE [h EXCEPT !.sc = BitAnd(value, 129)]

\* IoHandler::serial_transfer_byte
serial_transfer_byte(h) ==
    [h EXCEPT !.sent_bytes = Append(@, h.sb), !.sb = 0, !.sc = reset_bit(@, 7)]

\* IoHandler::tick
IoTick(h, cycles) ==
    IF h.sc = 129 THEN
        IF h.remaining_cycles + cycles >= 4
        THEN serial_transfer_byte([h EXCEPT !.remaining_cycles = 0])
        ELSE [h EXCEPT !.remaining_cycles = 0]
    ELSE h

----------------------------------------------------------------------------
(* Mmu: address decoding, boot-ROM overlay, read, write, tick              *)

BOOT_ROM_SIZE == 256

MMU_DEFAULT_READ_VALUE == 255

VRAM_START == 32768

EXTERNAL_RAM_START == 40960

WRAM_START == 49152

MIRROR_WRAM_START == 57344

OAM_START == 65024

OAM_END == 65183

IO_REG_START == 65280

IO_REG_END == 65282

TIMER_REG_START == 65284

TIMER_REG_END == 65287

INTERRUPT_FLAG == 65295

APU_CHANNEL1_SWEEP == 65296

APU_CHANNEL1_PERIOD_HIGH == 65300

APU_CHANNEL2_LENGTH == 65302

APU_SOUND_ON_OFF == 65318

APU_STORAGE_START == 65328

APU_STORAGE_END == 65343

PPU_REG_START == 65344

PPU_REG_END == 65355

BANK_REG == 65360

HRAM_START == 65408

HRAM_END == 65534

INTERRUPT_ENABLE_REG == 65535

\* The boot ROM's byte at addr < BOOT_ROM_SIZE (boot_rom[usize::from(addr)])
BootRomByte(boot, addr) == IF addr < Len(boot) THEN boot[addr + 1] ELSE 0

\* Mmu::new, for a boot ROM of BOOT_ROM_SIZE bytes and a cartridge that loaded
MmuNew(boot, cart) ==
    [ boot_rom  |-> boot,
      boot_mode |-> TRUE,
      cartridge |-> cart,
      hram      |-> NoCells,
      wram      |-> NoCells,
      io        |-> IoHandlerNew ]

\* MappedAddress::try_from: the variant with its offset, "Unmapped" for Err(())
MappedAddress(addr) ==
    IF addr <= ROM_BANK1_END THEN [kind |-> "CartridgeRom", offset |-> addr]
    ELSE IF addr < EXTERNAL_RAM_START THEN [kind |-> "VRam", offset |-> addr - VRAM_START]
    ELSE IF addr < WRAM_START
        THEN [kind |-> "ExternalRam", offset |-> addr - EXTERNAL_RAM_START]
    ELSE IF addr < MIRROR_WRAM_START THEN [kind |-> "WRam", offset |-> addr - WRAM_START]
    ELSE IF addr < OAM_START
        THEN [kind |-> "MirrorRam", offset |-> addr - MIRROR_WRAM_START]
    ELSE IF addr <= OAM_END THEN [kind |-> "Oam", offset |-> addr - OAM_START]
    ELSE IF addr >= IO_REG_START /\ addr <= IO_REG_END
        THEN [kind |-> "IoReg", offset |-> addr]
    ELSE IF addr >= TIMER_REG_START /\ addr <= TIMER_REG_END
        THEN [kind |-> "TimerReg", offset |-> addr]
    ELSE IF addr = INTERRUPT_FLAG THEN [kind |-> "Interrupt", offset |-> addr]
    ELSE IF \/ (addr >= APU_CHANNEL1_SWEEP /\ addr <= APU_CHANNEL1_PERIOD_HIGH)
            \/ (addr >= APU_CHANNEL2_LENGTH /\ addr <= APU_SOUND_ON_OFF)
            \/ (addr >= APU_STORAGE_START /\ addr <= APU_STORAGE_END)
        THEN [kind |-> "ApuReg", offset |-> addr]
    ELSE IF addr >= PPU_REG_START /\ addr <= PPU_REG_END
        THEN [kind |-> "PpuReg", offset |-> addr]
    ELSE IF addr = BANK_REG THEN [kind |-> "BankReg", offset |-> addr]
    ELSE IF addr >= HRAM_START /\ addr <= HRAM_END
        THEN [kind |-> "HRam", offset |-> addr - HRAM_START]
    ELSE IF addr = INTERRUPT_ENABLE_REG THEN [kind |-> "Interrupt", offset |-> addr]
    ELSE [kind |-> "Unmapped", offset |-> addr]

\* A raw_read that takes the boot ROM for mapped whatever boot_mode says
boot_rom_read_always(m, addr) == addr < BOOT_ROM_SIZE

\* Mmu::raw_read, boot_rom_read: the read is from the mapped-over boot ROM
boot_rom_read(m, addr) == m.boot_mode /\ addr < BOOT_ROM_SIZE

\* Mmu::raw_read: [some |-> TRUE, value |-> byte] for Some(ReadInfo), and
\* [some |-> FALSE] for None
MmuRawRead(m, addr) ==
    LET mapped == MappedAddress(addr)
    IN  CASE mapped.kind = "CartridgeRom" ->
                [some |-> TRUE,
                 value |-> IF boot_rom_read(m, addr) THEN BootRomByte(m.boot_rom, addr)
                           ELSE CartReadRom(m.cartridge, addr)]
          [] mapped.kind = "ExternalRam" ->
                [some |-> TRUE, value |-> CartReadRam(m.cartridge, mapped.offset)]
          [] mapped.kind = "WRam" ->
                [some |-> TRUE, value |-> Load(m.wram, mapped.offset, 0)]
          [] mapped.kind = "IoReg" ->
                [some |-> TRUE, value |-> IoRead(m.io, addr)]
          [] mapped.kind = "HRam" ->
                [some |-> TRUE, value |-> Load(m.hram, mapped.offset, 0)]
          [] OTHER -> [some |-> FALSE, value |-> 0]

\* ReadWriteMemory::read for Mmu, the match on what raw_read returned
ReadInfoValue(info) == IF info.some THEN info.value ELSE MMU_DEFAULT_READ_VALUE

\* ReadWriteMemory::read for Mmu
MmuRead(m, addr) == ReadInfoValue(MmuRawRead(m, addr))

\* Whether the asserts met by a read of addr hold (CartridgeBase::read_rom,
\* CartridgeBase::read_ram)
MmuReadOk(m, addr) ==
    LET mapped == MappedAddress(addr)
    IN  CASE mapped.kind = "CartridgeRom" ->
                boot_rom_read(m, addr) \/ CartReadRomOk(m.cartridge, addr)
          [] mapped.kind = "ExternalRam" -> CartReadRamOk(m.cartridge)
          [] OTHER -> TRUE

\* A BankReg arm that maps the boot ROM again on a write of zero
BankRegWriteRemaps(m, value) == [m EXCEPT !.boot_mode = (value = 0)]

\* Mmu::raw_write, the MappedAddress::BankReg arm
BankRegWrite(m, value) ==
    IF value # 0 THEN [m EXCEPT !.boot_mode = FALSE] ELSE m

\* Mmu::raw_write and ReadWriteMemory::write for Mmu: Err(()) changes nothing
MmuWrite(m, addr, value) ==
    LET mapped == MappedAddress(addr)
    IN  CASE mapped.kind = "CartridgeRom" ->
                [m EXCEPT !.cartridge = CartWriteRom(@, addr, value)]
          [] mapped.kind = "ExternalRam" ->
                [m EXCEPT !.cartridge = CartWriteRam(@, mapped.offset, value)]
          [] mapped.kind = "WRam" ->
                [m EXCEPT !.wram = Store(@, mapped.offset, value)]
          [] mapped.kind = "IoReg" ->
                [m EXCEPT !.io = IoWrite(@, addr, value)]
          [] mapped.kind = "BankReg" -> BankRegWrite(m, value)
          [] mapped.kind = "HRam" ->
                [m EXCEPT !.hram = Store(@, mapped.offset, value)]
          [] OTHER -> m

\* Tick::tick for Mmu
MmuTick(m, cycles) == [m EXCEPT !.io = IoTick(@, cycles)]

----------------------------------------------------------------------------
(* InterruptRegisters and Timers                                           *)

\* InterruptFlag bits
InterruptFlagBit(interrupt) ==
    CASE interrupt = "VBlank" -> 1
      [] interrupt = "LcdStat" -> 2
      [] interrupt = "Timer" -> 4
      [] interrupt = "Serial" -> 8
      [] interrupt = "Joypad" -> 16

\* InterruptRegisters::new
InterruptRegistersNew == [reg_ie |-> 0, reg_if |-> 0]

\* InterruptManager::if_set for InterruptRegisters
if_set(ir, interrupt) ==
    [ir EXCEPT !.reg_if = BitOr(@, InterruptFlagBit(interrupt))]

\* A priority_interrupt that looks at the interrupts from Joypad to VBlank
priority_interrupt_joypad_first(ir) ==
    LET flag == BitAnd(ir.reg_ie, ir.reg_if)
    IN  IF BitAnd(flag, 16) # 0 THEN "Joypad"
        ELSE IF BitAnd(flag, 8) # 0 THEN "Serial"
        ELSE IF BitAnd(flag, 4) # 0 THEN "Timer"
        ELSE IF BitAnd(flag, 2) # 0 THEN "LcdStat"
        ELSE IF BitAnd(flag, 1) # 0 THEN "VBlank"
        ELSE "None"

\* InterruptManager::priority_interrupt for InterruptRegisters: "None" for None
priority_interrupt(ir) ==
    LET flag == BitAnd(ir.reg_ie, ir.reg_if)
    IN  IF BitAnd(flag, 1) # 0 THEN "VBlank"
        ELSE IF BitAnd(flag, 2) # 0 THEN "LcdStat"
        ELSE IF BitAnd(flag, 4) # 0 THEN "Timer"
        ELSE IF BitAnd(flag, 8) # 0 THEN "Serial"
        ELSE IF BitAnd(flag, 16) # 0 THEN "Joypad"
        ELSE "None"

\* Interrupt::handler_address
handler_address(interrupt) ==
    CASE interrupt = "VBlank" -> 64
      [] interrupt = "LcdStat" -> 72
      [] interrupt = "Timer" -> 80
      [] interrupt = "Serial" -> 88
      [] interrupt = "Joypad" -> 96

\* Timers::new, with the interrupt manager its methods are given
TimersNew ==
    [system_clock |-> 0, tima |-> 0, tma |-> 0, tac |-> 0,
     interrupts |-> InterruptRegistersNew]

\* Timers::timer_enabled
timer_enabled(t) == bit(t.tac, 2)

\* Timers::falling_edge_detector: self.system_clock is the clock after the
\* change, bytes[0] its low byte and bytes[1] its high byte
falling_edge_detector(t, prev_system_clock) ==
    LET prev_lo == prev_system_clock % 256
        prev_hi == prev_system_clock \div 256
        lo == t.system_clock % 256
        hi == t.system_clock \div 256
        sel == bits(t.tac, 0, 1)
        before == CASE sel = 0 -> bit(prev_hi, 1)
                    [] sel = 1 -> bit(prev_lo, 3)
                    [] sel = 2 -> bit(prev_lo, 5)
                    [] sel = 3 -> bit(prev_lo, 7)
        after == CASE sel = 0 -> bit(hi, 1)
                   [] sel = 1 -> bit(lo, 3)
                   [] sel = 2 -> bit(lo, 5)
                   [] sel = 3 -> bit(hi, 7)
    IN  before /\ ~after

\* TIMA wrapping to zero on overflow, without the reload from TMA
increment_tima_wrapping(t) ==
    IF t.tima = 255
    THEN [t EXCEPT !.tima = 0, !.interrupts = if_set(@, "Timer")]
    ELSE [t EXCEPT !.tima = @ + 1]

\* Timers::increment_tima
increment_tima(t) ==
    IF t.tima = 255
    THEN [t EXCEPT !.tima = t.tma, !.interrupts = if_set(@, "Timer")]
    ELSE [t EXCEPT !.tima = @ + 1]

\* Timers::increment_system_clock
increment_system_clock(t) ==
    LET t1 == [t EXCEPT !.system_clock = WrapU16(@ + 1)]
    IN  IF timer_enabled(t1) /\ falling_edge_detector(t1, t.system_clock)
        THEN increment_tima(t1)
        ELSE t1

\* Timers::tick
RECURSIVE TimersTick(_, _)
TimersTick(t, cycles) ==
    IF cycles <= 0 THEN t ELSE TimersTick(increment_system_clock(t), cycles - 1)

\* Timers::read
TimersRead(t, reg) ==
    CASE reg = "DIV_REG" -> t.system_clock \div 256
      [] reg = "TIMA_REG" -> t.tima
      [] reg = "TMA_REG" -> t.tma
      [] reg = "TAC_REG" -> t.tac

\* A write whose DIV arm clears only the byte of the clock that DIV shows
TimersWriteClearsDivByte(t, reg, value) ==
    CASE reg = "DIV_REG" ->
            LET t1 == [t EXCEPT !.system_clock = @ % 256]
            IN  IF timer_enabled(t1) /\ falling_edge_detector(t1, t.system_clock)
                THEN increment_tima(t1)
                ELSE t1
      [] reg = "TIMA_REG" -> [t EXCEPT !.tima = value]
      [] reg = "TMA_REG" -> [t EXCEPT !.tma = value]
      [] reg = "TAC_REG" -> [t EXCEPT !.tac = bits(value, 0, 2)]

\* Timers::write
TimersWrite(t, reg, value) ==
    CASE reg = "DIV_REG" ->
            LET t1 == [t EXCEPT !.system_clock = 0]
            IN  IF timer_enabled(t1) /\ falling_edge_detector(t1, t.system_clock)
                THEN increment_tima(t1)
                ELSE t1
      [] reg = "TIMA_REG" -> [t EXCEPT !.tima = value]
      [] reg = "TMA_REG" -> [t EXCEPT !.tma = value]
      [] reg = "TAC_REG" -> [t EXCEPT !.tac = bits(value, 0, 2)]

----------------------------------------------------------------------------
(* Cpu: construction                                                       *)

\* Cpu::new; the Mmu it owns is the variable `mmu`
CpuNew ==
    [ a |-> 0, b |-> 0, c |-> 0, d |-> 0, e |-> 0, f |-> 0, h |-> 0, l |-> 0,
      sp |-> 0, pc |-> 0, rw_cycles |-> 0, panicked |-> FALSE ]

\* FlagsRegister: the bits of Z, N, H and C
FlagZ == 128

FlagN == 64

FlagH == 32

FlagC == 16

\* A FlagsRegister that keeps every bit of the byte it is made from
from_bits_retain(byte) == byte

\* FlagsRegister::from_bits_truncate: the bits that are no flag are dropped
from_bits_truncate(byte) == BitAnd(byte, FlagZ + FlagN + FlagH + FlagC)

\* FlagsRegister::insert, remove, set, toggle, intersects/contains of one flag
FlagInsert(f, flags) == BitOr(f, flags)

FlagRemove(f, flags) == f - BitAnd(f, flags)

FlagSet(f, flag, cond) == IF cond THEN FlagInsert(f, flag) ELSE FlagRemove(f, flag)

FlagToggle(f, flag) == BitXor(f, flag)

FlagIn(f, flag) == BitAnd(f, flag) # 0

\* The machine while a step runs: the Cpu's registers, the Mmu it owns, and
\* the sum of the cycles handed to Mmu::tick since the step began
Machine(c, m) == [cpu |-> c, mmu |-> m, ticked |-> 0]

\* self.mmu.tick(cycles)
Tick(M, cycles) ==
    [M EXCEPT !.mmu = MmuTick(@, cycles), !.ticked = @ + cycles]

DEFAULT_READ_WRITE_CYCLES == 4

DEFAULT_READ_WRITE_U16_CYCLES == DEFAULT_READ_WRITE_CYCLES * 2

\* Cpu::read, after the byte is read: rw_cycles grows and the Mmu ticks
AfterRead(M) ==
    Tick([M EXCEPT !.cpu.rw_cycles = @ + DEFAULT_READ_WRITE_CYCLES],
         DEFAULT_READ_WRITE_CYCLES)

\* Cpu::write
CpuWrite(M, addr, value) ==
    Tick([M EXCEPT !.mmu = MmuWrite(@, addr, value),
                   !.cpu.rw_cycles = @ + DEFAULT_READ_WRITE_CYCLES],
         DEFAULT_READ_WRITE_CYCLES)

\* ReadWriteMemory::read_u16
MmuReadU16(m, addr) == MmuRead(m, addr) + 256 * MmuRead(m, WrapU16(addr + 1))

\* Cpu::read_u16, after the word is read
AfterReadU16(M) ==
    Tick([M EXCEPT !.cpu.rw_cycles = @ + DEFAULT_READ_WRITE_U16_CYCLES],
         DEFAULT_READ_WRITE_U16_CYCLES)

\* Cpu::write_u16 with ReadWriteMemory::write_u16: low byte first
CpuWriteU16(M, addr, value) ==
    Tick([M EXCEPT !.mmu = MmuWrite(MmuWrite(@, addr, value % 256),
                                    WrapU16(addr + 1), value \div 256),
                   !.cpu.rw_cycles = @ + DEFAULT_READ_WRITE_U16_CYCLES],
         DEFAULT_READ_WRITE_U16_CYCLES)

\* Cpu::wide_reg
wide_reg(c, reg) ==
    CASE reg = "BC" -> c.c + 256 * c.b
      [] reg = "DE" -> c.e + 256 * c.d
      [] reg = "HL" -> c.l + 256 * c.h
      [] reg = "SP" -> c.sp
      [] reg = "AF" -> c.f + 256 * c.a

\* Cpu::set_wide_reg
set_wide_reg(c, reg, value) ==
    CASE reg = "BC" -> [c EXCEPT !.c = value % 256, !.b = value \div 256]
      [] reg = "DE" -> [c EXCEPT !.e = value % 256, !.d = value \div 256]
      [] reg = "HL" -> [c EXCEPT !.l = value % 256, !.h = value \div 256]
      [] reg = "SP" -> [c EXCEPT !.sp = value]
      [] reg = "AF" -> [c EXCEPT !.f = from_bits_truncate(value % 256),
                                 !.a = value \div 256]

\* The field of the Cpu that holds the 8-bit register `reg`
RegField(reg) ==
    CASE reg = "A" -> "a" [] reg = "B" -> "b" [] reg = "C" -> "c"
      [] reg = "D" -> "d" [] reg = "E" -> "e" [] reg = "H" -> "h"
      [] reg = "L" -> "l"

\* Cpu::reg, the value: (HL) is read through the Mmu
reg_value(M, reg) ==
    IF reg = "DerefHL" THEN MmuRead(M.mmu, wide_reg(M.cpu, "HL"))
    ELSE M.cpu[RegField(reg)]

\* Cpu::reg, the machine after it: reading (HL) costs a Cpu::read
reg_after(M, reg) == IF reg = "DerefHL" THEN AfterRead(M) ELSE M

\* Cpu::set_reg
set_reg(M, reg, value) ==
    IF reg = "DerefHL" THEN CpuWrite(M, wide_reg(M.cpu, "HL"), value)
    ELSE [M EXCEPT !.cpu[RegField(reg)] = value]

\* Cpu::condition
condition(c, cond) ==
    CASE cond = "NZ" -> ~FlagIn(c.f, FlagZ)
      [] cond = "Z" -> FlagIn(c.f, FlagZ)
      [] cond = "NC" -> ~FlagIn(c.f, FlagC)
      [] cond = "C" -> FlagIn(c.f, FlagC)

\* Cpu::push
push(M, value) ==
    LET sp == WrapU16(M.cpu.sp + 65536 - 2)
    IN  CpuWriteU16([M EXCEPT !.cpu.sp = sp], sp, value)

\* Cpu::push_wide_reg
push_wide_reg(M, reg) == push(M, wide_reg(M.cpu, reg))

\* Cpu::pop, the word popped
pop_value(M) == MmuReadU16(M.mmu, M.cpu.sp)

\* A pop that reads the word and leaves the stack pointer where it was
pop_after_keeping_sp(M) == AfterReadU16(M)

\* Cpu::pop, the machine after it
pop_after(M) == [AfterReadU16(M) EXCEPT !.cpu.sp = WrapU16(@ + 2)]

\* Cpu::pop_wide_reg
pop_wide_reg(M, reg) ==
    [pop_after(M) EXCEPT !.cpu = set_wide_reg(@, reg, pop_value(M))]

\* Cpu::ret
ret(M) == [pop_after(M) EXCEPT !.cpu.pc = pop_value(M)]

\* A call that jumps and pushes nothing
call_without_push(M, addr) == [M EXCEPT !.cpu.pc = addr]

\* Cpu::call
call(M, addr) == [push(M, M.cpu.pc) EXCEPT !.cpu.pc = addr]

----------------------------------------------------------------------------
(* Cpu: arithmetic and logic (alu.rs)                                      *)

half_carry_add(x, y) == BitAnd((x % 16) + (y % 16), 16) = 16

half_carry_adc(x, y, carry) ==
    BitAnd((x % 16) + (y % 16) + (IF carry THEN 1 ELSE 0), 16) = 16

half_carry_sub(x, y) == BitAnd(WrapU8((x % 16) + 256 - (y % 16)), 16) = 16

half_carry_sbc(x, y, carry) == (x % 16) < (y % 16) + (IF carry THEN 1 ELSE 0)

half_carry_add_wide(x, y) == BitAnd((x % 4096) + (y % 4096), 4096) = 4096

\* The Cpu with flags H, C and Z set or reset by the three conditions
SetHCZ(c, hc, carry, zero) ==
    [c EXCEPT !.f = FlagSet(FlagSet(FlagSet(@, FlagH, hc), FlagC, carry), FlagZ, zero)]

\* The Cpu with flags Z (only if z_flag) and C set or reset
SetZC(c, z_flag, zero, carry) ==
    [c EXCEPT !.f = FlagSet(IF z_flag THEN FlagSet(@, FlagZ, zero) ELSE @, FlagC, carry)]

\* Cpu::add
add(M, n) ==
    LET value == M.cpu.a
        result == WrapU8(value + n)
    IN  [M EXCEPT !.cpu = SetHCZ([@ EXCEPT !.a = result], half_carry_add(value, n),
                                 value + n > 255, result = 0)]

\* Cpu::adc
adc(M, n) ==
    LET value == M.cpu.a
        old_carry == FlagIn(M.cpu.f, FlagC)
        sum == value + n + (IF old_carry THEN 1 ELSE 0)
        result == WrapU8(sum)
    IN  [M EXCEPT !.cpu = SetHCZ([@ EXCEPT !.a = result],
                                 half_carry_adc(value, n, old_carry),
                                 sum > 255, result = 0)]

\* Cpu::sub
sub(M, n) ==
    LET value == M.cpu.a
        result == WrapU8(value + 256 - n)
    IN  [M EXCEPT !.cpu = SetHCZ([@ EXCEPT !.a = result], half_carry_sub(value, n),
                                 value < n, result = 0)]

\* Cpu::sbc
sbc(M, n) ==
    LET value == M.cpu.a
        old_carry == FlagIn(M.cpu.f, FlagC)
        borrow == n + (IF old_carry THEN 1 ELSE 0)
        result == WrapU8(value + 512 - borrow)
    IN  [M EXCEPT !.cpu = SetHCZ([@ EXCEPT !.a = result],
                                 half_carry_sbc(value, n, old_carry),
                                 value < borrow, result = 0)]

\* Cpu::and, Cpu::xor, Cpu::or: the result is stored and Z follows it
logic(M, result) ==
    [M EXCEPT !.cpu.a = result, !.cpu.f = FlagSet(@, FlagZ, result = 0)]

\* Cpu::cp
cp(M, n) ==
    LET value == M.cpu.a
    IN  [M EXCEPT !.cpu = SetHCZ(@, half_carry_sub(value, n), value < n, value = n)]

\* Cpu::add_wide
add_wide(M, lhs, rhs) ==
    LET x == wide_reg(M.cpu, lhs)
        y == wide_reg(M.cpu, rhs)
        c1 == set_wide_reg(M.cpu, lhs, WrapU16(x + y))
    IN  [M EXCEPT !.cpu =
            [c1 EXCEPT !.f = FlagSet(FlagSet(@, FlagH, half_carry_add_wide(x, y)),
                                     FlagC, x + y > 65535)]]

\* Cpu::inc and Cpu::dec: the register gets `result`, Z and H are set or reset
IncDec(M, reg, result, hc) ==
    LET M1 == set_reg(reg_after(M, reg), reg, result)
    IN  [M1 EXCEPT !.cpu.f = FlagSet(FlagSet(@, FlagZ, result = 0), FlagH, hc)]

\* Cpu::inc
inc(M, reg) ==
    LET value == reg_value(M, reg)
    IN  IncDec(M, reg, WrapU8(value + 1), half_carry_add(value, 1))

\* Cpu::dec
dec(M, reg) ==
    LET value == reg_value(M, reg)
    IN  IncDec(M, reg, WrapU8(value + 255), half_carry_sub(value, 1))

\* Cpu::inc_wide
inc_wide(M, reg) ==
    [M EXCEPT !.cpu = set_wide_reg(@, reg, WrapU16(wide_reg(@, reg) + 1))]

\* Cpu::dec_wide
dec_wide(M, reg) ==
    [M EXCEPT !.cpu = set_wide_reg(@, reg, WrapU16(wide_reg(@, reg) + 65535))]

\* The rotates and shifts: the register gets `result`, then Z (if z_flag) and C
Shift(M, reg, result, z_flag, carry) ==
    LET M1 == set_reg(reg_after(M, reg), reg, result)
    IN  [M1 EXCEPT !.cpu = SetZC(@, z_flag, result = 0, carry)]

\* Cpu::rlc
rlc(M, reg, z_flag) ==
    LET value == reg_value(M, reg)
        carry == bit(value, 7)
    IN  Shift(M, reg, Shl8(value, 1) + (IF carry THEN 1 ELSE 0), z_flag, carry)

\* Cpu::rrc
rrc(M, reg, z_flag) ==
    LET value == reg_value(M, reg)
        carry == bit(value, 0)
    IN  Shift(M, reg, Shr(value, 1) + (IF carry THEN 128 ELSE 0), z_flag, carry)

\* Cpu::rl
rl(M, reg, z_flag) ==
    LET value == reg_value(M, reg)
        old_carry == FlagIn(reg_after(M, reg).cpu.f, FlagC)
    IN  Shift(M, reg, Shl8(value, 1) + (IF old_carry THEN 1 ELSE 0), z_flag,
              bit(value, 7))

\* Cpu::rr
rr(M, reg, z_flag) ==
    LET value == reg_value(M, reg)
        old_carry == FlagIn(reg_after(M, reg).cpu.f, FlagC)
    IN  Shift(M, reg, Shr(value, 1) + (IF old_carry THEN 128 ELSE 0), z_flag,
              bit(value, 0))

\* Cpu::sla
sla(M, reg) ==
    LET value == reg_value(M, reg)
    IN  Shift(M, reg, Shl8(value, 1), TRUE, bit(value, 7))

\* Cpu::sra
sra(M, reg) ==
    LET value == reg_value(M, reg)
    IN  Shift(M, reg, Shr(value, 1) + (IF bit(value, 7) THEN 128 ELSE 0), TRUE,
              bit(value, 0))

\* Cpu::srl
srl(M, reg) ==
    LET value == reg_value(M, reg)
    IN  Shift(M, reg, Shr(value, 1), TRUE, bit(value, 0))

\* A swap that moves the low nibble up and drops the high one
swap_low_nibble_up(M, reg) ==
    LET value == reg_value(M, reg)
        result == Shl8(value % 16, 4)
        M1 == set_reg(reg_after(M, reg), reg, result)
    IN  [M1 EXCEPT !.cpu.f = FlagSet(@, FlagZ, result = 0)]

\* Cpu::swap
swap(M, reg) ==
    LET value == reg_value(M, reg)
        result == BitOr(Shl8(value % 16, 4), Shr(value, 4))
        M1 == set_reg(reg_after(M, reg), reg, result)
    IN  [M1 EXCEPT !.cpu.f = FlagSet(@, FlagZ, result = 0)]

\* An i8 as the integer it stands for
I8(byte) == IF byte >= 128 THEN byte - 256 ELSE byte

\* u16::wrapping_add_signed
wrapping_add_signed(value, offset) == WrapU16(value + 65536 + offset)

\* Cpu::add_sp_offset, the Cpu after it: H and C from the low byte's sum with
\* the offset taken as a u8
add_sp_offset_after(M, offset) ==
    LET lo == M.cpu.sp % 256
        unsigned_offset == WrapU8(256 + offset)
    IN  [M EXCEPT !.cpu.f = FlagSet(FlagSet(@, FlagH, half_carry_add(lo, unsigned_offset)),
                                    FlagC, lo + unsigned_offset > 255)]

\* Cpu::add_sp_offset, the value returned
add_sp_offset_value(M, offset) == wrapping_add_signed(M.cpu.sp, offset)

----------------------------------------------------------------------------
(* Cpu: decoding (opcode.rs, instruction.rs)                               *)

\* Register::from
RegisterFrom(value) ==
    CASE value = 0 -> "B" [] value = 1 -> "C" [] value = 2 -> "D"
      [] value = 3 -> "E" [] value = 4 -> "H" [] value = 5 -> "L"
      [] value = 6 -> "DerefHL" [] value = 7 -> "A"

\* WideRegister::from_rp
from_rp(value) ==
    CASE value = 0 -> "BC" [] value = 1 -> "DE" [] value = 2 -> "HL" [] value = 3 -> "SP"

\* WideRegister::from_rp2
from_rp2(value) ==
    CASE value = 0 -> "BC" [] value = 1 -> "DE" [] value = 2 -> "HL" [] value = 3 -> "AF"

\* FlagCondition::from
FlagConditionFrom(value) ==
    CASE value = 0 -> "NZ" [] value = 1 -> "Z" [] value = 2 -> "NC" [] value = 3 -> "C"

\* An Opcode variant with its fields (0 where it has none); "Err" is the
\* Err(byte) of Opcode::try_from
Opc(name, a, b) == [name |-> name, a |-> a, b |-> b]

\* MmuByteStream::fetch, the k-th byte from pc
Fetch(m, pc, k) == MmuRead(m, WrapU16(pc + k))

\* A decoder that knows no 0xCB-prefixed opcode
prefix_try_from_undefined(byte) == Opc("Err", byte, 0)

\* Opcode::prefix_try_from, on the byte after 0xCB
prefix_try_from(byte) ==
    LET x == byte \div 64
        y == (byte \div 8) % 8
        r == RegisterFrom(byte % 8)
    IN  CASE x = 0 ->
                Opc(CASE y = 0 -> "Rlc" [] y = 1 -> "Rrc" [] y = 2 -> "Rl"
                      [] y = 3 -> "Rr" [] y = 4 -> "Sla" [] y = 5 -> "Sra"
                      [] y = 6 -> "Swap" [] y = 7 -> "Srl", r, 0)
          [] x = 1 -> Opc("Bit", y, r)
          [] x = 2 -> Opc("Res", y, r)
          [] x = 3 -> Opc("Set", y, r)

\* Opcode::try_from, the arms with x = 0
OpcodeX0(y, z, p, q, n, nn) ==
    CASE z = 0 ->
            (CASE y = 0 -> Opc("Nop", 0, 0)
               [] y = 1 -> Opc("LdDerefImmSp", nn, 0)
               [] y = 2 -> Opc("Stop", 0, 0)
               [] y = 3 -> Opc("Jr", I8(n), 0)
               [] OTHER -> Opc("JrCond", FlagConditionFrom(y - 4), I8(n)))
      [] z = 1 ->
            IF q = 0 THEN Opc("LdWideRegImm", from_rp(p), nn)
            ELSE Opc("AddHLWideReg", from_rp(p), 0)
      [] z = 2 ->
            (CASE q = 0 /\ p = 0 -> Opc("LdDerefWideRegA", "BC", 0)
               [] q = 0 /\ p = 1 -> Opc("LdDerefWideRegA", "DE", 0)
               [] q = 0 /\ p = 2 -> Opc("LdHLIncA", 0, 0)
               [] q = 0 /\ p = 3 -> Opc("LdHLDecA", 0, 0)
               [] q = 1 /\ p = 0 -> Opc("LdADerefWideReg", "BC", 0)
               [] q = 1 /\ p = 1 -> Opc("LdADerefWideReg", "DE", 0)
               [] q = 1 /\ p = 2 -> Opc("LdAHLInc", 0, 0)
               [] q = 1 /\ p = 3 -> Opc("LdAHLDec", 0, 0))
      [] z = 3 ->
            IF q = 0 THEN Opc("IncWideReg", from_rp(p), 0)
            ELSE Opc("DecWideReg", from_rp(p), 0)
      [] z = 4 -> Opc("IncReg", RegisterFrom(y), 0)
      [] z = 5 -> Opc("DecReg", RegisterFrom(y), 0)
      [] z = 6 -> Opc("LdRegImm", RegisterFrom(y), n)
      [] z = 7 ->
            Opc(CASE y = 0 -> "Rlca" [] y = 1 -> "Rrca" [] y = 2 -> "Rla"
                  [] y = 3 -> "Rra" [] y = 4 -> "Daa" [] y = 5 -> "Cpl"
                  [] y = 6 -> "Scf" [] y = 7 -> "Ccf", 0, 0)

\* Opcode::try_from, the arms with x = 3
OpcodeX3(byte, y, z, p, q, n, nn) ==
    CASE z = 0 ->
            (CASE y <= 3 -> Opc("RetCond", FlagConditionFrom(y), 0)
               [] y = 4 -> Opc("LdOffsetImmA", n, 0)
               [] y = 5 -> Opc("AddSpDisp", I8(n), 0)
               [] y = 6 -> Opc("LdAOffsetImm", n, 0)
               [] y = 7 -> Opc("LdHLSPDisp", I8(n), 0))
      [] z = 1 ->
            (CASE q = 0 -> Opc("PopWideReg", from_rp2(p), 0)
               [] q = 1 /\ p = 0 -> Opc("Ret", 0, 0)
               [] q = 1 /\ p = 1 -> Opc("Reti", 0, 0)
               [] q = 1 /\ p = 2 -> Opc("JpHL", 0, 0)
               [] q = 1 /\ p = 3 -> Opc("LdSPHL", 0, 0))
      [] z = 2 ->
            (CASE y <= 3 -> Opc("JPCondImm", FlagConditionFrom(y), nn)
               [] y = 4 -> Opc("LdOffsetCA", 0, 0)
               [] y = 5 -> Opc("LdDerefImmA", nn, 0)
               [] y = 6 -> Opc("LdAOffsetC", 0, 0)
               [] y = 7 -> Opc("LdADerefImm", nn, 0))
      [] z = 3 ->
            (CASE y = 0 -> Opc("JP", nn, 0)
               [] y >= 2 /\ y <= 5 -> Opc("Err", byte, 0)
               [] y = 6 -> Opc("DI", 0, 0)
               [] y = 7 -> Opc("EI", 0, 0))
      [] z = 4 ->
            IF y <= 3 THEN Opc("CallCondImm", FlagConditionFrom(y), nn)
            ELSE Opc("Err", byte, 0)
      [] z = 5 ->
            (CASE q = 0 -> Opc("PushWideReg", from_rp2(p), 0)
               [] q = 1 /\ p = 0 -> Opc("CallImm", nn, 0)
               [] OTHER -> Opc("Err", byte, 0))
      [] z = 6 ->
            Opc(CASE y = 0 -> "AddImm" [] y = 1 -> "AdcImm" [] y = 2 -> "SubImm"
                  [] y = 3 -> "SbcImm" [] y = 4 -> "AndImm" [] y = 5 -> "XorImm"
                  [] y = 6 -> "OrImm" [] y = 7 -> "CpImm", n, 0)
      [] z = 7 -> Opc("Rst", y * 8, 0)

\* Opcode::try_from on the opcode byte and the two bytes that follow it in the
\* stream, with DecomposedByte::new
OpcodeOf(byte, n, n2) ==
    LET x == byte \div 64
        y == (byte \div 8) % 8
        z == byte % 8
        p == y \div 2
        q == y % 2
        nn == n + 256 * n2
    IN  IF byte = 203 THEN prefix_try_from(n)
        ELSE CASE x = 0 -> OpcodeX0(y, z, p, q, n, nn)
               [] x = 1 ->
                    IF z = 6 /\ y = 6 THEN Opc("Halt", 0, 0)
                    ELSE Opc("Ld", RegisterFrom(y), RegisterFrom(z))
               [] x = 2 ->
                    Opc(CASE y = 0 -> "Add" [] y = 1 -> "Adc" [] y = 2 -> "Sub"
                          [] y = 3 -> "Sbc" [] y = 4 -> "And" [] y = 5 -> "Xor"
                          [] y = 6 -> "Or" [] y = 7 -> "Cp", RegisterFrom(z), 0)
               [] x = 3 -> OpcodeX3(byte, y, z, p, q, n, nn)

\* Opcode::try_from on the MmuByteStream at pc
OpcodeTryFrom(m, pc) == OpcodeOf(Fetch(m, pc, 0), Fetch(m, pc, 1), Fetch(m, pc, 2))

\* A build that takes the base cycles for the branch cycles
BuildWithoutBranchCycles(opcode, length, read_cycles, cycles, branch_cycles, set_flags, reset_flags) ==
    [ opcode |-> opcode, length |-> length, read_cycles |-> read_cycles,
      cycles |-> cycles, branch_cycles |-> cycles,
      set_flags |-> set_flags, reset_flags |-> reset_flags ]

\* InstructionBuilder::build: the fields not given take their defaults
\* (length 1, read_cycles 0, cycles 4, branch_cycles = cycles, no flags)
Build(opcode, length, read_cycles, cycles, branch_cycles, set_flags, reset_flags) ==
    [ opcode |-> opcode, length |-> length, read_cycles |-> read_cycles,
      cycles |-> cycles, branch_cycles |-> branch_cycles,
      set_flags |-> set_flags, reset_flags |-> reset_flags ]

\* Arms that give the (HL) form the cycles of the register form
OnRegisterAtRegisterCycles(opcode, reg, length, hl, other, set_flags, reset_flags) ==
    Build(opcode, length, 0, other, other, set_flags, reset_flags)

\* Instruction::try_from, the arms of the opcodes that operate on a Register:
\* `hl` and `other` are the cycles with and without Register::DerefHL
OnRegister(opcode, reg, length, hl, other, set_flags, reset_flags) ==
    LET cycles == IF reg = "DerefHL" THEN hl ELSE other
    IN  Build(opcode, length, 0, cycles, cycles, set_flags, reset_flags)

\* Instruction::try_from, the metadata of a decoded opcode
InstructionOf(o) ==
    LET name == o.name
    IN  CASE name \in {"Nop", "Halt", "JpHL", "DI", "EI", "Ld", "Stop"} ->
                IF name = "Stop" THEN Build(o, 2, 0, 4, 4, 0, 0)
                ELSE IF name = "Ld" /\ (o.a = "DerefHL" \/ o.b = "DerefHL")
                    THEN Build(o, 1, 0, 8, 8, 0, 0)
                ELSE Build(o, 1, 0, 4, 4, 0, 0)
          [] name = "LdDerefImmSp" -> Build(o, 3, 8, 20, 20, 0, 0)
          [] name = "Jr" -> Build(o, 2, 4, 12, 12, 0, 0)
          [] name = "JrCond" -> Build(o, 2, 4, 8, 12, 0, 0)
          [] name = "LdWideRegImm" -> Build(o, 3, 8, 12, 12, 0, 0)
          [] name = "AddHLWideReg" -> Build(o, 1, 0, 8, 8, 0, FlagN)
          [] name \in {"LdDerefWideRegA", "LdADerefWideReg", "LdHLIncA", "LdHLDecA",
                       "LdAHLInc", "LdAHLDec", "IncWideReg", "DecWideReg", "LdSPHL",
                       "LdOffsetCA", "LdAOffsetC"} -> Build(o, 1, 0, 8, 8, 0, 0)
          [] name = "IncReg" -> OnRegister(o, o.a, 1, 12, 4, 0, FlagN)
          [] name = "DecReg" -> OnRegister(o, o.a, 1, 12, 4, FlagN, 0)
          [] name = "LdRegImm" ->
                IF o.a = "DerefHL" THEN Build(o, 2, 4, 12, 12, 0, 0)
                ELSE Build(o, 2, 4, 8, 8, 0, 0)
          [] name \in {"Rlca", "Rrca", "Rla", "Rra"} ->
                Build(o, 1, 0, 4, 4, 0, FlagZ + FlagN + FlagH)
          [] name = "Daa" -> Build(o, 1, 0, 4, 4, 0, FlagH)
          [] name = "Cpl" -> Build(o, 1, 0, 4, 4, FlagN + FlagH, 0)
          [] name = "Scf" -> Build(o, 1, 0, 4, 4, FlagC, FlagN + FlagH)
          [] name = "Ccf" -> Build(o, 1, 0, 4, 4, 0, FlagN + FlagH)
          [] name \in {"Add", "Adc"} -> OnRegister(o, o.a, 1, 8, 4, 0, FlagN)
          [] name \in {"Sub", "Sbc", "Cp"} -> OnRegister(o, o.a, 1, 8, 4, FlagN, 0)
          [] name = "And" -> OnRegister(o, o.a, 1, 8, 4, FlagH, FlagN + FlagC)
          [] name \in {"Xor", "Or"} ->
                OnRegister(o, o.a, 1, 8, 4, 0, FlagN + FlagH + FlagC)
          [] name = "RetCond" -> Build(o, 1, 0, 8, 20, 0, 0)
          [] name \in {"LdOffsetImmA", "LdAOffsetImm"} -> Build(o, 2, 4, 12, 12, 0, 0)
          [] name = "AddSpDisp" -> Build(o, 2, 4, 16, 16, 0, FlagZ + FlagN)
          [] name = "LdHLSPDisp" -> Build(o, 2, 4, 12, 12, 0, FlagZ + FlagN)
          [] name = "PopWideReg" -> Build(o, 1, 0, 12, 12, 0, 0)
          [] name \in {"Ret", "Reti", "PushWideReg", "Rst"} ->
                Build(o, 1, 0, 16, 16, 0, 0)
          [] name = "JPCondImm" -> Build(o, 3, 8, 12, 16, 0, 0)
          [] name \in {"LdDerefImmA", "LdADerefImm", "JP"} ->
                Build(o, 3, 8, 16, 16, 0, 0)
          [] name = "CallCondImm" -> Build(o, 3, 8, 12, 24, 0, 0)
          [] name = "CallImm" -> Build(o, 3, 8, 24, 24, 0, 0)
          [] name \in {"AddImm", "AdcImm"} -> Build(o, 2, 4, 8, 8, 0, FlagN)
          [] name \in {"SubImm", "SbcImm", "CpImm"} -> Build(o, 2, 4, 8, 8, FlagN, 0)
          [] name = "AndImm" -> Build(o, 2, 4, 8, 8, FlagH, FlagN + FlagC)
          [] name \in {"XorImm", "OrImm"} ->
                Build(o, 2, 4, 8, 8, 0, FlagN + FlagH + FlagC)
          [] name \in {"Rlc", "Rrc", "Rl", "Rr", "Sla", "Sra", "Srl"} ->
                OnRegister(o, o.a, 2, 16, 8, 0, FlagN + FlagH)
          [] name = "Swap" -> OnRegister(o, o.a, 2, 16, 8, 0, FlagN + FlagH + FlagC)
          [] name = "Bit" -> OnRegister(o, o.b, 2, 12, 8, FlagH, FlagN)
          [] name \in {"Res", "Set"} -> OnRegister(o, o.b, 2, 16, 8, 0, 0)

----------------------------------------------------------------------------
(* Cpu: execution (execute.rs) and Cpu::step                               *)

\* The result of Instruction::execute: the machine after it and whether the
\* branch cycles are returned rather than the cycles
Done(M) == [m |-> M, branch |-> FALSE]

Branched(M) == [m |-> M, branch |-> TRUE]

\* Instruction::execute, the Opcode::Daa arm
Daa(M) ==
    LET c == M.cpu
        add_60 == ~FlagIn(c.f, FlagN) /\ (FlagIn(c.f, FlagC) \/ c.a > 153)
        v1 == IF FlagIn(c.f, FlagN)
              THEN (IF FlagIn(c.f, FlagC) THEN WrapU8(c.a + 256 - 96) ELSE c.a)
              ELSE (IF add_60 THEN WrapU8(c.a + 96) ELSE c.a)
        v2 == IF FlagIn(c.f, FlagN)
              THEN (IF FlagIn(c.f, FlagH) THEN WrapU8(v1 + 256 - 6) ELSE v1)
              ELSE (IF FlagIn(c.f, FlagH) \/ v1 % 16 > 9 THEN WrapU8(v1 + 6) ELSE v1)
        f1 == IF add_60 THEN FlagInsert(c.f, FlagC) ELSE c.f
    IN  [M EXCEPT !.cpu.a = v2, !.cpu.f = FlagSet(f1, FlagZ, v2 = 0)]

\* Instruction::execute, the arms of the 8-bit ALU opcodes on the value n
Alu(M, name, n) ==
    CASE name \in {"Add", "AddImm"} -> add(M, n)
      [] name \in {"Adc", "AdcImm"} -> adc(M, n)
      [] name \in {"Sub", "SubImm"} -> sub(M, n)
      [] name \in {"Sbc", "SbcImm"} -> sbc(M, n)
      [] name \in {"And", "AndImm"} -> logic(M, BitAnd(M.cpu.a, n))
      [] name \in {"Xor", "XorImm"} -> logic(M, BitXor(M.cpu.a, n))
      [] name \in {"Or", "OrImm"} -> logic(M, BitOr(M.cpu.a, n))
      [] name \in {"Cp", "CpImm"} -> cp(M, n)

\* Instruction::execute, the arms of the 0xCB-prefixed opcodes
Prefixed(M, o) ==
    CASE o.name = "Rlc" -> rlc(M, o.a, TRUE)
      [] o.name = "Rrc" -> rrc(M, o.a, TRUE)
      [] o.name = "Rl" -> rl(M, o.a, TRUE)
      [] o.name = "Rr" -> rr(M, o.a, TRUE)
      [] o.name = "Sla" -> sla(M, o.a)
      [] o.name = "Sra" -> sra(M, o.a)
      [] o.name = "Swap" -> swap(M, o.a)
      [] o.name = "Srl" -> srl(M, o.a)
      [] o.name = "Bit" ->
            [reg_after(M, o.b) EXCEPT
                !.cpu.f = FlagSet(@, FlagZ, ~bit(reg_value(M, o.b), o.a))]
      [] o.name = "Res" ->
            set_reg(reg_after(M, o.b), o.b, reset_bit(reg_value(M, o.b), o.a))
      [] o.name = "Set" ->
            set_reg(reg_after(M, o.b), o.b, set_bit(reg_value(M, o.b), o.a))

\* Instruction::execute, the arms that load and store
Loads(M, o) ==
    LET name == o.name
        c == M.cpu
        hl == wide_reg(c, "HL")
    IN  CASE name = "LdDerefImmSp" -> [M EXCEPT !.cpu.sp = o.a]
          [] name = "LdWideRegImm" -> [M EXCEPT !.cpu = set_wide_reg(@, o.a, o.b)]
          [] name = "LdDerefWideRegA" -> CpuWrite(M, wide_reg(c, o.a), c.a)
          [] name = "LdADerefWideReg" ->
                [AfterRead(M) EXCEPT !.cpu.a = MmuRead(M.mmu, wide_reg(c, o.a))]
          [] name = "LdHLIncA" -> inc_wide(set_reg(M, "DerefHL", c.a), "HL")
          [] name = "LdHLDecA" -> dec_wide(set_reg(M, "DerefHL", c.a), "HL")
          [] name = "LdAHLInc" ->
                inc_wide([AfterRead(M) EXCEPT !.cpu.a = MmuRead(M.mmu, hl)], "HL")
          [] name = "LdAHLDec" ->
                dec_wide([AfterRead(M) EXCEPT !.cpu.a = MmuRead(M.mmu, hl)], "HL")
          [] name = "LdRegImm" -> set_reg(M, o.a, o.b)
          [] name = "Ld" -> set_reg(reg_after(M, o.b), o.a, reg_value(M, o.b))
          [] name = "LdOffsetImmA" -> CpuWrite(M, 65280 + o.a, c.a)
          [] name = "LdAOffsetImm" ->
                [AfterRead(M) EXCEPT !.cpu.a = MmuRead(M.mmu, 65280 + o.a)]
          [] name = "LdHLSPDisp" ->
                [add_sp_offset_after(M, o.a) EXCEPT
                    !.cpu = set_wide_reg(@, "HL", add_sp_offset_value(M, o.a))]
          [] name = "LdSPHL" -> [M EXCEPT !.cpu.sp = hl]
          [] name = "LdOffsetCA" -> CpuWrite(M, 65280 + c.c, c.a)
          [] name = "LdDerefImmA" -> CpuWrite(M, o.a, c.a)
          [] name = "LdAOffsetC" ->
                [AfterRead(M) EXCEPT !.cpu.a = MmuRead(M.mmu, 65280 + c.c)]
          [] name = "LdADerefImm" ->
                [AfterRead(M) EXCEPT !.cpu.a = MmuRead(M.mmu, o.a)]

\* Instruction::execute, the jumps, calls and returns; pc is already past
\* the instruction
Jumps(M, ins) ==
    LET o == ins.opcode
        name == o.name
        c == M.cpu
    IN  CASE name = "Jr" ->
                Done([M EXCEPT !.cpu.pc =
                    wrapping_add_signed(WrapU16(c.pc + 65536 - ins.length), o.a)])
          [] name = "JrCond" ->
                IF condition(c, o.a)
                THEN Branched([M EXCEPT !.cpu.pc = wrapping_add_signed(c.pc, o.b)])
                ELSE Done(M)
          [] name = "RetCond" ->
                IF condition(c, o.a) THEN Branched(ret(M)) ELSE Done(M)
          [] name = "Ret" -> Done(ret(M))
          [] name = "JpHL" -> Done([M EXCEPT !.cpu.pc = wide_reg(c, "HL")])
          [] name = "JPCondImm" ->
                IF condition(c, o.a) THEN Branched([M EXCEPT !.cpu.pc = o.b])
                ELSE Done(M)
          [] name = "JP" -> Done([M EXCEPT !.cpu.pc = o.a])
          [] name = "CallCondImm" ->
                IF condition(c, o.a) THEN Branched(call(M, o.b)) ELSE Done(M)
          [] name = "CallImm" -> Done(call(M, o.a))
          [] name = "Rst" -> Done(call(M, o.a))

\* Instruction::execute
Execute(M, ins) ==
    LET o == ins.opcode
        name == o.name
    IN  CASE name \in {"Jr", "JrCond", "RetCond", "Ret", "JpHL", "JPCondImm", "JP",
                       "CallCondImm", "CallImm", "Rst"} -> Jumps(M, ins)
          [] name \in {"LdDerefImmSp", "LdWideRegImm", "LdDerefWideRegA",
                       "LdADerefWideReg", "LdHLIncA", "LdHLDecA", "LdAHLInc",
                       "LdAHLDec", "LdRegImm", "Ld", "LdOffsetImmA", "LdAOffsetImm",
                       "LdHLSPDisp", "LdSPHL", "LdOffsetCA", "LdDerefImmA",
                       "LdAOffsetC", "LdADerefImm"} -> Done(Loads(M, o))
          [] name \in {"Rlc", "Rrc", "Rl", "Rr", "Sla", "Sra", "Swap", "Srl", "Bit",
                       "Res", "Set"} -> Done(Prefixed(M, o))
          [] name \in {"Add", "Adc", "Sub", "Sbc", "And", "Xor", "Or", "Cp"} ->
                Done(Alu(reg_after(M, o.a), name, reg_value(M, o.a)))
          [] name \in {"AddImm", "AdcImm", "SubImm", "SbcImm", "AndImm", "XorImm",
                       "OrImm", "CpImm"} -> Done(Alu(M, name, o.a))
          [] name = "AddHLWideReg" -> Done(add_wide(M, "HL", o.a))
          [] name = "IncWideReg" -> Done(inc_wide(M, o.a))
          [] name = "DecWideReg" -> Done(dec_wide(M, o.a))
          [] name = "IncReg" -> Done(inc(M, o.a))
          [] name = "DecReg" -> Done(dec(M, o.a))
          [] name = "Rlca" -> Done(rlc(M, "A", FALSE))
          [] name = "Rrca" -> Done(rrc(M, "A", FALSE))
          [] name = "Rla" -> Done(rl(M, "A", FALSE))
          [] name = "Rra" -> Done(rr(M, "A", FALSE))
          [] name = "Daa" -> Done(Daa(M))
          [] name = "Cpl" -> Done([M EXCEPT !.cpu.a = 255 - @])
          [] name = "Ccf" -> Done([M EXCEPT !.cpu.f = FlagToggle(@, FlagC)])
          [] name = "AddSpDisp" ->
                Done([add_sp_offset_after(M, o.a) EXCEPT
                        !.cpu.sp = add_sp_offset_value(M, o.a)])
          [] name = "PopWideReg" -> Done(pop_wide_reg(M, o.a))
          [] name = "PushWideReg" -> Done(push_wide_reg(M, o.a))
          [] OTHER -> Done(M)

\* A Cpu::execute that returns and ticks the base cycles whether or not the
\* instruction branched
ExecutedAtBaseCycles(done, ins) ==
    LET total_cycles == ins.cycles
        f == FlagRemove(FlagInsert(done.m.cpu.f, ins.set_flags), ins.reset_flags)
        rw_cycles == done.m.cpu.rw_cycles
    IN  IF total_cycles >= rw_cycles
        THEN [m |-> Tick([done.m EXCEPT !.cpu.f = f], total_cycles - rw_cycles),
              total |-> total_cycles]
        ELSE [m |-> [done.m EXCEPT !.cpu.f = f, !.cpu.panicked = TRUE],
              total |-> total_cycles]

\* Cpu::execute after instruction.execute returned `done`: the flags of the
\* instruction, the assert on the cycles, and the tick of the cycles left;
\* [m |-> the machine after it, total |-> the cycles returned]
Executed(done, ins) ==
    LET total_cycles == IF done.branch THEN ins.branch_cycles ELSE ins.cycles
        f == FlagRemove(FlagInsert(done.m.cpu.f, ins.set_flags), ins.reset_flags)
        rw_cycles == done.m.cpu.rw_cycles
    IN  IF total_cycles >= rw_cycles
        THEN [m |-> Tick([done.m EXCEPT !.cpu.f = f], total_cycles - rw_cycles),
              total |-> total_cycles]
        ELSE [m |-> [done.m EXCEPT !.cpu.f = f, !.cpu.panicked = TRUE],
              total |-> total_cycles]

\* Cpu::execute: pc moves past the instruction, rw_cycles restarts at the
\* cycles the fetch read, the Mmu ticks them, then the instruction executes
CpuExecute(M, ins) ==
    Executed(Execute(Tick([M EXCEPT !.cpu.pc = WrapU16(@ + ins.length),
                                    !.cpu.rw_cycles = ins.read_cycles],
                          ins.read_cycles),
                     ins),
             ins)

\* A step that charges nothing for an undefined opcode byte
CpuStepOfFreeUndefined(M, o) ==
    IF o.name = "Err"
    THEN [m |-> M, total |-> 0]
    ELSE CpuExecute(M, InstructionOf(o))

\* Cpu::step once Cpu::fetch decoded `o` at pc: an undefined opcode byte is
\* logged and DEFAULT_READ_WRITE_CYCLES returned
CpuStepOf(M, o) ==
    IF o.name = "Err"
    THEN [m |-> M, total |-> DEFAULT_READ_WRITE_CYCLES]
    ELSE CpuExecute(M, InstructionOf(o))

----------------------------------------------------------------------------
(* SpecCart: a cartridge behind the MMU, its registers written and its ROM *)
(* windows read through the MMU                                            *)

\* The seed of the ROM image loaded
RomSeed == 17

\* A boot ROM image: its first bytes, the rest of the 256 bytes being zero
BootImage == <<49, 254, 255, 175, 33, 255, 159, 50>>

\* The (rom_banks, ram_banks) headers that Mbc1::new accepts
Mbc1Headers == {h \in HeaderRomBanks \X HeaderRamBanks : h[1] <= 128}

\* The cartridges new_cartridge can build from a ROM image
Cartridges ==
    {Mbc1New(RomSeed, h[1], h[2]) : h \in Mbc1Headers}
        \cup {RomOnlyNew(RomSeed, r) : r \in HeaderRamBanks}

\* Addresses written: each of the four register ranges, and range ends
CartRegAddrs == {0, 8191, 8192, 16383, 16384, 24576, 32767}

\* Values written: every register's bits in and out of its mask
CartRegValues == {0, 1, 2, 3, 4, 7, 10, 31, 32, 58, 225}

\* Addresses read in the low and in the high ROM window
CartReadAddrs == {0, 255, 256, 16383, 16384, 32767}

CartInit ==
    /\ \E cart \in Cartridges : mmu = MmuNew(BootImage, cart)
    /\ timers = TimersNew
    /\ cpu = CpuNew
    /\ op = [name |-> "new", addr |-> 0, value |-> 0, result |-> 0]

\* A guest write to a cartridge register
CartWriteRegister ==
    /\ ~mmu.cartridge.panicked
    /\ \E addr \in CartRegAddrs, value \in CartRegValues :
        /\ mmu' = MmuWrite(mmu, addr, value)
        /\ op' = [name |-> "write", addr |-> addr, value |-> value, result |-> 0]
    /\ UNCHANGED <<timers, cpu>>

\* A guest read of cartridge ROM
CartReadRomWindow ==
    /\ ~mmu.cartridge.panicked
    /\ \E addr \in CartReadAddrs :
        /\ mmu' = IF MmuReadOk(mmu, addr) THEN mmu
                  ELSE [mmu EXCEPT !.cartridge = CartAssert(FALSE, @)]
        /\ op' = [name |-> "read", addr |-> addr, value |-> 0,
                  result |-> MmuRead(mmu, addr)]
    /\ UNCHANGED <<timers, cpu>>

CartNext == CartWriteRegister \/ CartReadRomWindow

SpecCart == CartInit /\ [][CartNext]_vars

\* C1: for an MBC1 cartridge, after any sequence of register writes the low
\* and high ROM bank indices are below the header's ROM bank count and the
\* RAM bank index is below the header's RAM bank count (or there is no RAM),
\* so that no bank-index assertion fails.
C1_BankIndicesInRange ==
    mmu.cartridge.kind = "Mbc1" =>
        /\ mmu.cartridge.rom_bank0 < mmu.cartridge.header.rom_banks
        /\ mmu.cartridge.rom_bank1 < mmu.cartridge.header.rom_banks
        /\ \/ mmu.cartridge.ram_bank < mmu.cartridge.header.ram_banks
           \/ mmu.cartridge.header.ram_banks = 0
        /\ ~mmu.cartridge.panicked

\* C2: for an MBC1 cartridge, in every state reached by register writes the
\* bank mapped in the high ROM window is none of 0x00, 0x20, 0x40, 0x60.
C2_HighWindowNeverBankZeroAlias ==
    mmu.cartridge.kind = "Mbc1" => mmu.cartridge.rom_bank1 \notin {0, 32, 64, 96}

\* A write of v in 0..7 to the ROM bank register of an MBC1 with 8 ROM banks
\* goes through, and the high window then shows bank v, or bank 1 for v = 0
BankSelectStep ==
    (/\ op'.name = "write"
     /\ op'.addr \in (RAM_ENABLE_REG_END + 1)..ROM_BANK_REG_END
     /\ op'.value \in 0..7
     /\ mmu.cartridge.kind = "Mbc1"
     /\ mmu.cartridge.header.rom_banks = 8) =>
        /\ ~mmu'.cartridge.panicked
        /\ \A k \in {0, 255, ROM_BANK_SIZE - 1} :
                MmuRead(mmu', ROM_BANK1_START + k) =
                    RomByte(mmu.cartridge.rom,
                            ROM_BANK_SIZE * (IF op'.value = 0 THEN 1 ELSE op'.value) + k)

\* C14: for an MBC1 cartridge with 8 ROM banks, after v in 1..7 is written
\* to 0x2000-0x3FFF a read of 0x4000+k returns the ROM byte at
\* v * 0x4000 + k, and after 0 is written it returns the byte at 0x4000+k
C14_BankSelectMapsHighWindow == [][BankSelectStep]_vars

\* The high ROM window bank that the bank registers of cartridge c stand for
HighBankOf(c) ==
    LET masked == BitAnd(c.rom_bank_reg, c.rom_bank_mask)
        bank == IF masked = 0 THEN masked + 1 ELSE masked
    IN  IF c.large_rom THEN BitOr(bank, Shl8(c.ram_bank_reg, 5)) ELSE bank

\* C22: after every MBC1 register write, the high ROM window bank equals
\* rom_bank_reg AND rom_bank_mask, replaced by that value plus 1 when it is
\* zero, and on a large-ROM cartridge OR-ed with ram_bank_reg << 5
C22_HighBankFromRegisters ==
    (op.name = "write" /\ mmu.cartridge.kind = "Mbc1") =>
        mmu.cartridge.rom_bank1 = HighBankOf(mmu.cartridge)

\* C23: after every MBC1 register write, the low ROM window bank is 0 in
\* Simple mode, 0 in Advanced mode on a large-RAM cartridge, and
\* ram_bank_reg << 5 in Advanced mode otherwise, ram_bank_reg being the 2-bit
\* value last written to 0x4000-0x5FFF
C23_LowBankFromRegisters ==
    (op.name = "write" /\ mmu.cartridge.kind = "Mbc1") =>
        mmu.cartridge.rom_bank0 =
            IF mmu.cartridge.bank_mode = "Simple" THEN 0
            ELSE IF mmu.cartridge.large_ram THEN 0
            ELSE Shl8(mmu.cartridge.ram_bank_reg, 5)

\* C24: after every MBC1 register write, the external RAM window bank is 0
\* in Simple mode, ram_bank_reg (the 2-bit value last written to
\* 0x4000-0x5FFF) in Advanced mode on a cartridge that is not large-ROM, and
\* 0 otherwise
C24_RamBankFromRegisters ==
    (op.name = "write" /\ mmu.cartridge.kind = "Mbc1") =>
        mmu.cartridge.ram_bank =
            IF mmu.cartridge.bank_mode = "Simple" THEN 0
            ELSE IF ~mmu.cartridge.large_rom THEN mmu.cartridge.ram_bank_reg
            ELSE 0

\* C25: on an MBC1 cartridge external RAM starts disabled, and after a write
\* of v to an address in 0x0000-0x1FFF it is enabled iff v AND 0x0F = 0x0A
\* and the cartridge has at least one RAM bank; any other low nibble
\* disables it
C25_RamEnableByLowNibble ==
    mmu.cartridge.kind = "Mbc1" =>
        /\ op.name = "new" => ~mmu.cartridge.ram_enabled
        /\ (op.name = "write" /\ op.addr \in 0..8191) =>
               (mmu.cartridge.ram_enabled <=>
                    (op.value % 16 = 10 /\ mmu.cartridge.header.ram_banks >= 1))

\* C25 witness: the value 0x3A written to 0x1FFF has enabled the RAM of an
\* MBC1 cartridge that has RAM
C25_Witness ==
    /\ mmu.cartridge.kind = "Mbc1" /\ mmu.cartridge.header.ram_banks >= 1
    /\ op.name = "write" /\ op.addr = 8191 /\ op.value = 58
    /\ mmu.cartridge.ram_enabled

\* The three bank indices of cartridge c
BankIndices(c) == <<c.rom_bank0, c.rom_bank1, c.ram_bank>>

\* The MBC1 register that a write to addr reaches
RegisterOf(addr) ==
    IF addr <= RAM_ENABLE_REG_END THEN "ram_enable"
    ELSE IF addr <= ROM_BANK_REG_END THEN "rom_bank"
    ELSE IF addr <= RAM_BANK_REG_END THEN "ram_bank"
    ELSE "bank_mode"

\* A further register write to cartridge c; nothing is written after a panic
WriteThen(c, addr, value) ==
    IF c.panicked THEN c ELSE CartWriteRom(c, addr, value)

\* A write to the RAM-enable range took c to d: the bank indices are kept
RamEnableKeepsBanks(c, d, addr) ==
    RegisterOf(addr) = "ram_enable" => BankIndices(d) = BankIndices(c)

\* A write to one of the other three ranges took c to d: the RAM-enable flag
\* is kept
BankWriteKeepsEnable(c, d, addr) ==
    RegisterOf(addr) # "ram_enable" => d.ram_enabled = c.ram_enabled

\* The write (addr, value) took c to d. A write to another register commutes
\* with it, and a write to the same register overrides it, as far as the bank
\* indices go
BanksFollowLastValues(c, d, addr, value) ==
    \A a \in CartRegAddrs, v \in CartRegValues :
        IF RegisterOf(a) # RegisterOf(addr)
        THEN BankIndices(WriteThen(d, a, v)) =
                 BankIndices(WriteThen(WriteThen(c, a, v), addr, value))
        ELSE BankIndices(WriteThen(d, a, v)) = BankIndices(WriteThen(c, a, v))

\* A register write to an MBC1 cartridge touches its own register only
RegisterWriteStep ==
    (op'.name = "write" /\ mmu.cartridge.kind = "Mbc1") =>
        /\ RamEnableKeepsBanks(mmu.cartridge, mmu'.cartridge, op'.addr)
        /\ BankWriteKeepsEnable(mmu.cartridge, mmu'.cartridge, op'.addr)
        /\ mmu'.cartridge.rom = mmu.cartridge.rom
        /\ mmu'.cartridge.ram = mmu.cartridge.ram
        /\ BanksFollowLastValues(mmu.cartridge, mmu'.cartridge,
                                 op'.addr, op'.value)

\* C39: on an MBC1 cartridge a write to 0x0000-0x1FFF leaves the low-ROM,
\* high-ROM and RAM bank indices unchanged, a write to the ROM-bank, RAM-bank
\* or mode range leaves the RAM-enable flag unchanged, no register write
\* changes the ROM image or the external RAM, and the bank indices follow the
\* last value written to each register, whatever the order of the writes
C39_RegisterWritesAreIndependent == [][RegisterWriteStep]_vars

----------------------------------------------------------------------------
(* SpecMmu: reads, writes and ticks of the MMU over the whole address map  *)

\* The cartridges under the MMU: ROM only with one RAM bank, and an MBC1
\* with 64 ROM banks
MmuCartridges == {RomOnlyNew(RomSeed, 1), Mbc1New(RomSeed, 64, 1)}

\* One address at each bound of the holes between the named ranges:
\* 0xFEA0-0xFEFF, 0xFF03, 0xFF08-0xFF0E, 0xFF15, 0xFF1F, 0xFF27-0xFF2F,
\* 0xFF4C-0xFF4F, 0xFF51-0xFF7F
HoleAddrs ==
    {65184, 65279, 65283, 65288, 65294, 65301, 65311, 65319, 65327,
     65356, 65359, 65361, 65407}

\* Addresses of every MappedAddress variant
MappedAddrs ==
    {0, 7, 8, 255, 256, 8192, 16383, 16384, 24576, 32767,
     32768, 40960, 49152, 57344, 65024, 65183,
     65280, 65281, 65282, 65284, 65295, 65296, 65328,
     65344, 65360, 65408, 65535}

MmuAddrs == HoleAddrs \cup MappedAddrs

\* The writes taken, as <<addr, value>>: the cartridge's bank and mode
\* registers, external RAM, work RAM, serial data and control, the bank
\* register with zero and nonzero, high RAM; each hole and each range the
\* Mmu maps to no device
MmuWrites ==
    {<<8192, 3>>, <<8192, 0>>, <<24576, 3>>, <<24576, 0>>,
     <<40960, 3>>, <<49152, 3>>, <<65281, 3>>, <<65282, 129>>,
     <<65360, 0>>, <<65360, 3>>, <<65408, 129>>}
        \cup (HoleAddrs \X {3})
        \cup ({32768, 57344, 65024, 65284, 65285, 65295, 65296, 65344, 65535} \X {3})

\* The serial transfers after which the model stops ticking
MaxSent == 1

MmuInit ==
    /\ \E cart \in MmuCartridges : mmu = MmuNew(BootImage, cart)
    /\ timers = TimersNew
    /\ cpu = CpuNew
    /\ op = [name |-> "new", addr |-> 0, value |-> 0, result |-> 0]

\* ReadWriteMemory::write on the Mmu
MmuWriteByte ==
    /\ ~mmu.cartridge.panicked
    /\ \E w \in MmuWrites :
        /\ mmu' = MmuWrite(mmu, w[1], w[2])
        /\ op' = [name |-> "write", addr |-> w[1], value |-> w[2], result |-> 0]
    /\ UNCHANGED <<timers, cpu>>

\* ReadWriteMemory::read on the Mmu
MmuReadByte ==
    /\ ~mmu.cartridge.panicked
    /\ \E addr \in MmuAddrs :
        /\ mmu' = IF MmuReadOk(mmu, addr) THEN mmu
                  ELSE [mmu EXCEPT !.cartridge = CartAssert(FALSE, @)]
        /\ op' = [name |-> "read", addr |-> addr, value |-> 0,
                  result |-> MmuRead(mmu, addr)]
    /\ UNCHANGED <<timers, cpu>>

\* Tick::tick on the Mmu
MmuTickCycles ==
    /\ ~mmu.cartridge.panicked
    /\ Len(mmu.io.sent_bytes) < MaxSent
    /\ \E cycles \in {4, 8} :
        /\ mmu' = MmuTick(mmu, cycles)
        /\ op' = [name |-> "tick", addr |-> 0, value |-> cycles, result |-> 0]
    /\ UNCHANGED <<timers, cpu>>

MmuNext == MmuWriteByte \/ MmuReadByte \/ MmuTickCycles

SpecMmu == MmuInit /\ [][MmuNext]_vars

\* A step that keeps to the boot_mode rule: boot_mode is never set, a write
\* of a nonzero value to 0xFF50 clears it, a write of zero to 0xFF50 leaves
\* it as it was, and nothing else changes it
BootModeStep ==
    LET bank_reg_write == op'.name = "write" /\ op'.addr = BANK_REG
    IN  /\ mmu'.boot_mode => mmu.boot_mode
        /\ bank_reg_write /\ op'.value # 0 => ~mmu'.boot_mode
        /\ bank_reg_write /\ op'.value = 0 => mmu'.boot_mode = mmu.boot_mode
        /\ mmu'.boot_mode # mmu.boot_mode => bank_reg_write /\ op'.value # 0

\* C3: boot_mode starts true and changes only from true to false: a write
\* of a nonzero value to 0xFF50 clears it, a write of zero to 0xFF50 leaves
\* it unchanged, and once false no read, write or tick makes it true again.
C3_BootModeOnlyCleared == mmu.boot_mode /\ [][BootModeStep]_vars

\* C3 witness: with boot_mode cleared, zero has been written to 0xFF50 and
\* boot_mode is still false
C3_Witness ==
    /\ op.name = "write" /\ op.addr = BANK_REG /\ op.value = 0
    /\ ~mmu.boot_mode

\* The byte of the ROM image that the active ROM window shows at addr
ActiveRomByte(m, addr) ==
    RomByte(m.cartridge.rom,
            ROM_BANK_SIZE * (IF addr < ROM_BANK1_START THEN m.cartridge.rom_bank0
                             ELSE m.cartridge.rom_bank1)
                + (addr % ROM_BANK_SIZE))

\* A read of 0x0000-0x7FFF returns the boot ROM's byte below 0x100 while
\* boot_mode is true, and the active window's cartridge byte otherwise
BootOverlayReadStep ==
    op'.name = "read" /\ op'.addr <= ROM_BANK1_END =>
        op'.result = IF mmu.boot_mode /\ op'.addr <= 255
                     THEN BootRomByte(mmu.boot_rom, op'.addr)
                     ELSE ActiveRomByte(mmu, op'.addr)

\* C4: while boot_mode is true a read of 0x0000-0x00FF returns the boot-ROM
\* byte at that address and a read of 0x0100-0x7FFF the cartridge byte of the
\* active ROM window; once boot_mode is false a read of 0x0000-0x00FF returns
\* the cartridge byte of the low ROM window.
C4_BootOverlayReads == [][BootOverlayReadStep]_vars

\* C4 witness: after boot_mode was cleared, a read of 0x00FF returned the
\* cartridge's byte, which differs from the boot ROM's byte there
C4_Witness ==
    /\ op.name = "read" /\ op.addr = 255
    /\ ~mmu.boot_mode
    /\ op.result = RomByte(RomSeed, 255)
    /\ op.result # BootRomByte(mmu.boot_rom, 255)

\* A step in which a read of a hole or of 0xFF50 returns 0xFF, a write to a
\* hole changes nothing of the Mmu, and no read or write fails
HolesStep ==
    /\ op'.name = "read" /\ op'.addr \in HoleAddrs \cup {BANK_REG} =>
            op'.result = MMU_DEFAULT_READ_VALUE
    /\ op'.name = "write" /\ op'.addr \in HoleAddrs => mmu' = mmu
    /\ ~mmu'.cartridge.panicked

\* C9: a read of any address in a hole between the named ranges, and of
\* 0xFF50, returns 0xFF; a write to a hole changes no MMU, cartridge or I/O
\* state; and no address makes a read or a write fail.
C9_HolesAbsorbedNoFailure == [][HolesStep]_vars

----------------------------------------------------------------------------
(* SpecTimers: the timers ticked one T-cycle or more at a time and their   *)
(* registers written, from clocks at and around the edges of each tap      *)

\* The system clock where a run starts: the timers after construction (0),
\* or after the ticks that bring the clock just before an edge of bit 3, 5,
\* 7, 9 or 15, or before its wrap to zero
ClockStarts == {0, 7, 15, 31, 63, 127, 255, 511, 1023, 32767, 65535}

\* The register writes taken, as <<register, value>>
TimerWrites ==
    {<<"TAC_REG", 0>>, <<"TAC_REG", 4>>, <<"TAC_REG", 5>>, <<"TAC_REG", 6>>,
     <<"TAC_REG", 255>>, <<"TIMA_REG", 255>>, <<"TMA_REG", 48>>, <<"DIV_REG", 0>>,
     <<"DIV_REG", 171>>}

\* The cycle counts handed to Timers::tick
TimerTicks == {1, 16}

\* The operations after which a run of the timers stops
MaxTimerOps == 4

TimersInit ==
    /\ \E clock \in ClockStarts : timers = [TimersNew EXCEPT !.system_clock = clock]
    /\ mmu = MmuNew(BootImage, RomOnlyNew(RomSeed, 0))
    /\ cpu = CpuNew
    /\ op = [name |-> "new", addr |-> "", value |-> 0, result |-> 0]

\* Timers::write
TimersWriteReg ==
    /\ op.result < MaxTimerOps
    /\ \E w \in TimerWrites :
        /\ timers' = TimersWrite(timers, w[1], w[2])
        /\ op' = [name |-> "write", addr |-> w[1], value |-> w[2],
                  result |-> op.result + 1]
    /\ UNCHANGED <<mmu, cpu>>

\* Timers::tick
TimersTickCycles ==
    /\ op.result < MaxTimerOps
    /\ \E cycles \in TimerTicks :
        /\ timers' = TimersTick(timers, cycles)
        /\ op' = [name |-> "tick", addr |-> "", value |-> cycles,
                  result |-> op.result + 1]
    /\ UNCHANGED <<mmu, cpu>>

TimersNext == TimersWriteReg \/ TimersTickCycles

SpecTimers == TimersInit /\ [][TimersNext]_vars

\* The tap bit of the system clock that TAC bits 1-0 select
TapBit(tac) ==
    CASE tac % 4 = 0 -> 9
      [] tac % 4 = 1 -> 3
      [] tac % 4 = 2 -> 5
      [] tac % 4 = 3 -> 7

\* TIMA after one increment of it
TimaAdvanced(t) == IF t.tima = 255 THEN t.tma ELSE t.tima + 1

\* A tick of one T-cycle advances TIMA iff the timer is enabled and the tap
\* bit is 1 before the tick and 0 after it, and leaves TIMA alone otherwise
FallingEdgeStep ==
    op'.name = "tick" /\ op'.value = 1 =>
        LET prev == timers.system_clock
            next == timers'.system_clock
            falling == /\ bit(timers.tac, 2)
                       /\ bit(prev, TapBit(timers.tac))
                       /\ ~bit(next, TapBit(timers.tac))
        IN  /\ next = (prev + 1) % 65536
            /\ timers'.tima = IF falling THEN TimaAdvanced(timers) ELSE timers.tima

\* C10: for every system-clock tick from prev to next = prev + 1 (mod 2^16)
\* and every TAC value, TIMA advances by one iff the timer is enabled (TAC
\* bit 2) and the tap bit selected by TAC bits 1-0 (bit 9, 3, 5, 7 for select
\* 0, 1, 2, 3) is 1 in prev and 0 in next; otherwise the tick leaves TIMA.
C10_TimaAdvancesOnFallingEdge == [][FallingEdgeStep]_vars

----------------------------------------------------------------------------
(* SpecCpu: the Cpu stepping through a program in the boot ROM, over the   *)
(* Mmu with a ROM-only cartridge                                           *)

\* The start of every program: LD SP,0xDFFE; LD BC,0xFFFF; PUSH BC;
\* LD HL,0xC000; LD A,0x81 - and then, in the second one, LD BC,0x8001;
\* PUSH BC; POP BC; XOR A; SCF, which leaves A zero and the flags Z and C set
Prologues ==
    LET common == <<49, 254, 223, 1, 255, 255, 197, 33, 0, 192, 62, 129>>
    IN  {common, common \o <<1, 1, 128, 197, 193, 175, 55>>}

\* The two bytes after the opcode under test: the operand nn = 0xC000 (work
\* RAM) with n = 0, nn = 0xFFFF with the offset -1, nn = 0x00D3 with n an
\* undefined opcode byte, nn = 0xFF02 (serial control) with the offset +2
Operands == {<<0, 192>>, <<255, 255>>, <<211, 0>>, <<2, 255>>}

\* Where the stack programs put the stack: at the top of work RAM (0xDFFE),
\* at the top of high RAM (0xFFFE), in cartridge ROM (0x4000), and at 0x0000,
\* from where the first push wraps to 0xFFFE
StackPointers == {57342, 65534, 16384, 0}

\* LD SP,sp; LD BC,0x1234; LD DE,0x5678; LD HL,0x9ABC; LD A,0x81; SCF
StackSetup(sp) ==
    <<49, sp % 256, sp \div 256, 1, 52, 18, 17, 120, 86, 33, 188, 154, 62, 129, 55>>

\* After the setup: PUSH rr; POP rr' for every pair of BC, DE, HL and AF, or
\* PUSH HL; PUSH DE; POP BC; POP DE, or CALL 0x0014; NOP; NOP; RET with the
\* RET at 0x0014, or CALL C,0x0014; NOP; NOP; RET C the same way
StackBodies ==
    {<<197 + 16 * i, 193 + 16 * j>> : i \in 0..3, j \in 0..3}
        \cup {<<229, 213, 193, 209>>, <<205, 20, 0, 0, 0, 201>>,
              <<220, 20, 0, 0, 0, 216>>}

StackPrograms == {StackSetup(sp) \o body : sp \in StackPointers, body \in StackBodies}

\* The register and flag states the twice-run instructions start from: the
\* common prologue (no flag set), the stack setup (C set), the stack setup and
\* CPL (N, H and C set), the stack setup and XOR A (Z set, A zero)
TwiceSetups ==
    {<<49, 254, 223, 1, 255, 255, 197, 33, 0, 192, 62, 129>>,
     StackSetup(57342), StackSetup(57342) \o <<47>>, StackSetup(57342) \o <<175>>}

\* SWAP r; SWAP r for each of the eight operands, CPL; CPL and CCF; CCF
TwiceBodies ==
    {<<203, 48 + r, 203, 48 + r>> : r \in 0..7} \cup {<<47, 47>>, <<63, 63>>}

TwicePrograms == {setup \o body : setup \in TwiceSetups, body \in TwiceBodies}

\* The programs run: a prologue, then every opcode byte with each operand
\* pair, and every 0xCB-prefixed opcode
Programs ==
    {p \o <<opcode>> \o nn : p \in Prologues, opcode \in Byte, nn \in Operands}
        \cup {p \o <<203, n>> : p \in Prologues, n \in Byte}
        \cup StackPrograms
        \cup TwicePrograms

\* The steps after which a run of the Cpu stops
MaxSteps == 11

\* The last four entries of a trail
LastSteps(trail) ==
    IF Len(trail) > 4 THEN SubSeq(trail, Len(trail) - 3, Len(trail)) ELSE trail

CpuInit ==
    /\ \E program \in Programs : mmu = MmuNew(program, RomOnlyNew(RomSeed, 1))
    /\ cpu = CpuNew
    /\ timers = TimersNew
    /\ op = [name |-> "new", opcode |-> Opc("", 0, 0), pc |-> 0, total |-> 0,
             ticked |-> 0, n |-> 0, prev |-> "", trail |-> << >>]

\* Cpu::step: op keeps the opcode decoded at pc, the cycles returned, the
\* sum of the cycles the step handed to Mmu::tick, the name of the opcode of
\* the step before, and the trail of the last four steps: the opcode of each,
\* the Cpu before it and the byte that (HL) held before it
CpuStep ==
    /\ ~cpu.panicked
    /\ op.n < MaxSteps
    /\ \E o \in {OpcodeTryFrom(mmu, cpu.pc)} :
        \E r \in {CpuStepOf(Machine(cpu, mmu), o)} :
            /\ cpu' = r.m.cpu
            /\ mmu' = r.m.mmu
            /\ op' = [name |-> "step", opcode |-> o, pc |-> cpu.pc,
                      total |-> r.total, ticked |-> r.m.ticked, n |-> op.n + 1,
                      prev |-> op.opcode.name,
                      trail |-> LastSteps(Append(op.trail,
                                   [o |-> o, c |-> cpu,
                                    hl |-> MmuRead(mmu, wide_reg(cpu, "HL"))]))]
    /\ UNCHANGED timers

CpuNext == CpuStep

SpecCpu == CpuInit /\ [][CpuNext]_vars

\* C5: after any step(), rw_cycles is at most the total the step returned, and
\* both are positive multiples of 4, for every instruction, for branches taken
\* or not, and for a step that hits an undefined opcode
C5_RwCyclesWithinTotal ==
    (op.name = "step" /\ ~cpu.panicked) =>
        /\ cpu.rw_cycles <= op.total
        /\ cpu.rw_cycles > 0 /\ cpu.rw_cycles % 4 = 0
        /\ op.total > 0 /\ op.total % 4 = 0

\* C6: the cycles a step hands to Mmu::tick sum to the cycles the step returns
C6_TickedEqualsReturned ==
    (op.name = "step" /\ ~cpu.panicked) => op.ticked = op.total

\* C7: after any step(), the low 4 bits of the F register are zero, POP AF of
\* any stack word included
C7_FlagLowNibbleZero == op.name = "step" => BitAnd(cpu.f, 15) = 0

\* POP AF has popped the word 0xFFFF: A took 0xFF and F kept the four flags only
C7_Witness ==
    /\ op.name = "step"
    /\ op.opcode.name = "PopWideReg"
    /\ op.opcode.a = "AF"
    /\ cpu.a = 255
    /\ cpu.f = 240

\* A step that fetched an undefined opcode byte moved pc on by one and
\* returned 4 cycles
UndefinedOpcodeStep ==
    (op'.name = "step" /\ op'.opcode.name = "Err") =>
        /\ cpu'.pc = WrapU16(cpu.pc + 1)
        /\ op'.total = 4

\* C8: a step() that fetches an undefined opcode byte returns no error, moves
\* pc on by exactly one and charges 4 cycles, so that the next step() decodes
\* the byte after the undefined one
C8_UndefinedOpcodeSkipsOneByte == [][UndefinedOpcodeStep]_vars

\* The interrupt the Cpu has pending: the one of the highest priority in
\* IE AND IF, the two registers as the Mmu reads them at 0xFFFF and 0xFF0F
PendingInterrupt(m) ==
    priority_interrupt([reg_ie |-> BitAnd(MmuRead(m, INTERRUPT_ENABLE_REG), 31),
                        reg_if |-> BitAnd(MmuRead(m, INTERRUPT_FLAG), 31)])

\* ime stands true: EI was executed and the instruction after it has retired
ImeSetByEI ==
    /\ op.name = "step"
    /\ op.prev = "EI"
    /\ op.opcode.name \notin {"DI", "EI", "Err"}

\* A step taken with ime true and an interrupt pending dispatches it: the IF
\* bit is cleared, pc is pushed and set to the handler, 20 cycles are returned
InterruptDispatchStep ==
    (ImeSetByEI /\ PendingInterrupt(mmu) # "None" /\ op'.n = op.n + 1) =>
        /\ cpu'.pc = handler_address(PendingInterrupt(mmu))
        /\ cpu'.sp = WrapU16(cpu.sp + 65534)
        /\ MmuReadU16(mmu', cpu'.sp) = cpu.pc
        /\ BitAnd(MmuRead(mmu', INTERRUPT_FLAG),
                  InterruptFlagBit(PendingInterrupt(mmu))) = 0
        /\ op'.total = 20

\* C11: at the start of a step(), an interrupt pending in IE AND IF with ime
\* true is dispatched: its IF bit is cleared, the current pc is pushed, pc is
\* set to the interrupt's handler address and 20 cycles are charged
C11_PendingInterruptDispatched == [][InterruptDispatchStep]_vars

\* What a dispatch looks like from outside the Cpu: 20 cycles returned, pc at
\* the handler of the pending interrupt and the stack grown by one word
Dispatched ==
    /\ op'.total = 20
    /\ PendingInterrupt(mmu) # "None"
    /\ cpu'.pc = handler_address(PendingInterrupt(mmu))
    /\ cpu'.sp = WrapU16(cpu.sp + 65534)

\* EI takes effect one instruction late and DI at once, seen through the
\* dispatches that ime allows: none right after DI, none right after an EI
\* that follows DI, one after the instruction that follows EI has retired
DelayedEnableStep ==
    (op'.n = op.n + 1) =>
        /\ (op.name = "step" /\ op.opcode.name = "DI") => ~Dispatched
        /\ (op.name = "step" /\ op.opcode.name = "EI" /\ op.prev = "DI")
               => ~Dispatched
        /\ (ImeSetByEI /\ PendingInterrupt(mmu) # "None") => Dispatched

\* C12: EI does not make ime true at once, ime becomes true only after the
\* instruction following EI has retired, and DI makes ime false and cancels
\* a pending EI immediately
C12_EiDelayedDiImmediate == [][DelayedEnableStep]_vars

\* A tick that increments TIMA at 0xFF reloads it from TMA and raises the
\* Timer interrupt flag; a tick of 16 cycles from clock 0 with TAC = 0x05,
\* TIMA = 0xFF and TMA = 0x30 overflows once
TimaOverflowStep ==
    /\ (/\ op'.name = "tick" /\ op'.value = 1
        /\ timers.tima = 255
        /\ timer_enabled(timers)
        /\ falling_edge_detector(timers', timers.system_clock)) =>
            /\ timers'.tima = timers.tma
            /\ BitAnd(timers'.interrupts.reg_if, InterruptFlagBit("Timer")) # 0
    /\ (/\ op'.name = "tick" /\ op'.value = 16
        /\ timers.tac = 5 /\ timers.tima = 255 /\ timers.tma = 48
        /\ timers.system_clock = 0) =>
            /\ timers'.tima = 48
            /\ BitAnd(timers'.interrupts.reg_if, InterruptFlagBit("Timer")) # 0

\* C15: when TIMA overflows from 0xFF it is reloaded with TMA and the Timer
\* bit of IF is set; with TAC = 0x05, TIMA = 0xFF, TMA = 0x30 and the system
\* clock at 0, a tick of 16 cycles overflows TIMA exactly once, leaving
\* TIMA = 0x30 and IF.Timer = 1
C15_TimaOverflowReloads == [][TimaOverflowStep]_vars

\* C15 witness: the tick of 16 cycles from clock 0 has overflowed TIMA
C15_Witness ==
    /\ op.name = "tick" /\ op.value = 16
    /\ timers.system_clock = 16 /\ timers.tac = 5
    /\ timers.tima = 48 /\ timers.tma = 48
    /\ BitAnd(timers.interrupts.reg_if, InterruptFlagBit("Timer")) # 0

----------------------------------------------------------------------------
(* SpecIo: the IoHandler under writes, reads, ticks and button events      *)

\* The writes taken, as <<addr, value>>: the joypad select bits in each
\* combination (with bits outside 5-4 that the register drops), serial data
\* and serial control with and without the transfer request
IoWrites ==
    {<<65280, 0>>, <<65280, 16>>, <<65280, 32>>, <<65280, 48>>, <<65280, 207>>,
     <<65281, 171>>, <<65282, 129>>, <<65282, 1>>}

\* The cycle counts handed to tick: less than, exactly and more than the four
\* cycles of a serial transfer
TickCycles == {2, 4, 8}

JoypadButtons == {"up", "down", "left", "right", "a", "b", "start", "select"}

\* The serial transfers after which the model stops ticking
MaxTransfers == 1

\* The buttons held down at once
MaxHeld == 2

Held(joypad) == {button \in JoypadButtons : joypad[button]}

\* op carries the history of the serial transfer under way: whether SB has
\* been written, whether SC was then written with 0x81 (armed), SB's byte at
\* that write and the cycles ticked since; and the history of the joypad: the
\* value last written to 0xFF00 (-1 before any write) and the buttons pressed
\* and not released since
IoInit ==
    /\ mmu = MmuNew(BootImage, RomOnlyNew(RomSeed, 1))
    /\ timers = TimersNew
    /\ cpu = CpuNew
    /\ op = [name |-> "new", addr |-> 0, value |-> 0, result |-> 0,
             sb_written |-> FALSE, armed |-> FALSE, since |-> 0, byte |-> 0,
             selected |-> -1, down |-> {}]

\* IoHandler::write
IoWriteReg ==
    /\ \E w \in IoWrites :
        /\ mmu' = [mmu EXCEPT !.io = IoWrite(@, w[1], w[2])]
        /\ op' = [name |-> "write", addr |-> w[1], value |-> w[2], result |-> 0,
                  sb_written |-> op.sb_written \/ w[1] = 65281,
                  armed |-> IF w[1] \in {65281, 65282}
                            THEN op.sb_written /\ w = <<65282, 129>>
                            ELSE op.armed,
                  since |-> IF w[1] \in {65281, 65282} THEN 0 ELSE op.since,
                  byte |-> IF w = <<65282, 129>> THEN mmu.io.sb ELSE op.byte,
                  selected |-> IF w[1] = 65280 THEN w[2] ELSE op.selected,
                  down |-> op.down]
    /\ UNCHANGED <<timers, cpu>>

\* IoHandler::read
IoReadReg ==
    /\ \E addr \in {65280, 65281, 65282} :
        op' = [op EXCEPT !.name = "read", !.addr = addr, !.value = 0,
                         !.result = IoRead(mmu.io, addr)]
    /\ UNCHANGED <<mmu, timers, cpu>>

\* IoHandler::tick
IoTickCycles ==
    /\ Len(mmu.io.sent_bytes) < MaxTransfers
    /\ \E cycles \in TickCycles :
        /\ mmu' = [mmu EXCEPT !.io = IoTick(@, cycles)]
        /\ op' = [op EXCEPT !.name = "tick", !.addr = 0, !.value = cycles,
                             !.result = 0,
                             !.since = IF op.since + cycles >= 4 THEN 4
                                       ELSE op.since + cycles]
    /\ UNCHANGED <<timers, cpu>>

\* IoHandler::button_pressed
IoButtonPressed ==
    /\ Cardinality(Held(mmu.io.joypad)) < MaxHeld
    /\ \E button \in JoypadButtons :
        /\ mmu' = [mmu EXCEPT !.io.joypad = button_pressed(@, button)]
        /\ op' = [op EXCEPT !.name = "pressed", !.addr = 0, !.value = 0,
                             !.result = 0, !.down = @ \cup {button}]
    /\ UNCHANGED <<timers, cpu>>

\* IoHandler::button_released
IoButtonReleased ==
    /\ \E button \in JoypadButtons :
        /\ mmu' = [mmu EXCEPT !.io.joypad = button_released(@, button)]
        /\ op' = [op EXCEPT !.name = "released", !.addr = 0, !.value = 0,
                             !.result = 0, !.down = @ \ {button}]
    /\ UNCHANGED <<timers, cpu>>

IoNext ==
    IoWriteReg \/ IoReadReg \/ IoTickCycles \/ IoButtonPressed \/ IoButtonReleased

SpecIo == IoInit /\ [][IoNext]_vars

\* C13: after SB was written and SC was written with 0x81, once the ticks
\* delivered since then total at least 4 cycles, however they are split over
\* tick calls, SB's byte is the last of the transmitted-bytes log, bit 7 of SC
\* is clear and SB reads 0
C13_SerialTransferAfterFourCycles ==
    (op.armed /\ op.since >= 4) =>
        /\ Len(mmu.io.sent_bytes) > 0
        /\ mmu.io.sent_bytes[Len(mmu.io.sent_bytes)] = op.byte
        /\ ~bit(IoRead(mmu.io, 65282), 7)
        /\ IoRead(mmu.io, 65281) = 0

\* The step taken k steps before the last one (k = 0 for the last one), and
\* whether the trail reaches that far back
Ago(k) == op.trail[Len(op.trail) - k]

\* The last steps were the opcodes `names` on the registers `regs`, in order
Ran(names, regs) ==
    /\ Len(op.trail) >= Len(names)
    /\ \A i \in 1..Len(names) :
        /\ Ago(Len(names) - i).o.name = names[i]
        /\ Ago(Len(names) - i).o.a = regs[i]

\* The `words` stack words below sp lie in work RAM or in high RAM
StackInRam(sp, words) ==
    \A i \in 1..(2 * words) :
        LET addr == WrapU16(sp + 65536 - i)
        IN  \/ addr \in WRAM_START..(MIRROR_WRAM_START - 1)
            \/ addr \in HRAM_START..HRAM_END

\* value with the low four bits cleared
LowNibbleCleared(value) == value - (value % 16)

\* PUSH rr; POP rr has left rr and SP as before the PUSH (`stack` tells for
\* which SP before the PUSH this is required)
PushPopRestores(stack(_)) ==
    \A wr \in {"BC", "DE", "HL"} :
        (Ran(<<"PushWideReg", "PopWideReg">>, <<wr, wr>>) /\ stack(Ago(1).c.sp)) =>
            /\ wide_reg(cpu, wr) = wide_reg(Ago(1).c, wr)
            /\ cpu.sp = Ago(1).c.sp

\* PUSH rr; POP AF has left in AF the word pushed, less the low four bits
PopAfTruncates(stack(_)) ==
    \A wr \in {"BC", "DE", "HL", "AF"} :
        (Ran(<<"PushWideReg", "PopWideReg">>, <<wr, "AF">>) /\ stack(Ago(1).c.sp)) =>
            /\ wide_reg(cpu, "AF") = LowNibbleCleared(wide_reg(Ago(1).c, wr))
            /\ cpu.sp = Ago(1).c.sp

\* PUSH HL; PUSH DE; POP BC; POP DE has left BC = old DE and DE = old HL
StackIsLifo(stack(_)) ==
    (/\ Ran(<<"PushWideReg", "PushWideReg", "PopWideReg", "PopWideReg">>,
            <<"HL", "DE", "BC", "DE">>)
     /\ stack(Ago(3).c.sp)) =>
        /\ wide_reg(cpu, "BC") = wide_reg(Ago(3).c, "DE")
        /\ wide_reg(cpu, "DE") = wide_reg(Ago(3).c, "HL")
        /\ cpu.sp = Ago(3).c.sp

AnyStack(sp) == TRUE

OneWordInRam(sp) == StackInRam(sp, 1)

TwoWordsInRam(sp) == StackInRam(sp, 2)

\* C16 as stated: PUSH rr; POP rr restores rr and SP for BC, DE and HL; the
\* AF popped is the word pushed with the low 4 bits of F zeroed; the stack is
\* LIFO: PUSH HL; PUSH DE; POP BC; POP DE leaves BC = old DE and DE = old HL
C16_PushPopRoundTrip ==
    /\ PushPopRestores(AnyStack)
    /\ PopAfTruncates(AnyStack)
    /\ StackIsLifo(AnyStack)

\* C16 amended: the same, for a stack whose words pushed lie in work RAM or
\* in high RAM
C16_PushPopRoundTripInRam ==
    /\ PushPopRestores(OneWordInRam)
    /\ PopAfTruncates(OneWordInRam)
    /\ StackIsLifo(TwoWordsInRam)

\* C16 witness: with the stack in work RAM, PUSH HL; PUSH DE; POP BC; POP DE
\* has run and BC holds 0x5678, DE holds 0x9ABC
C16_Witness ==
    /\ Ran(<<"PushWideReg", "PushWideReg", "PopWideReg", "PopWideReg">>,
           <<"HL", "DE", "BC", "DE">>)
    /\ Ago(3).c.sp = 57342 /\ cpu.sp = 57342
    /\ wide_reg(cpu, "BC") = 22136 /\ wide_reg(cpu, "DE") = 39612

\* CALL nn has set pc to nn and pushed the address of the instruction after
\* the CALL, three bytes on
CallPushesReturnAddress(stack(_)) ==
    (/\ Len(op.trail) >= 1 /\ Ago(0).o.name = "CallImm"
     /\ stack(Ago(0).c.sp)) =>
        /\ cpu.pc = Ago(0).o.a
        /\ cpu.sp = WrapU16(Ago(0).c.sp + 65534)
        /\ MmuReadU16(mmu, cpu.sp) = WrapU16(Ago(0).c.pc + 3)

\* CALL nn; RET has come back to the instruction after the CALL, with SP as
\* it was before the CALL
RetResumesAfterCall(stack(_)) ==
    (/\ Len(op.trail) >= 2
     /\ Ago(1).o.name = "CallImm" /\ Ago(0).o.name = "Ret"
     /\ stack(Ago(1).c.sp)) =>
        /\ cpu.pc = WrapU16(Ago(1).c.pc + 3)
        /\ cpu.sp = Ago(1).c.sp

\* C17 as stated: CALL nn pushes the address of the instruction following
\* the CALL and sets PC = nn; a subsequent RET resumes at that address with
\* SP as it was before the CALL
C17_CallRetRoundTrip ==
    /\ CallPushesReturnAddress(AnyStack)
    /\ RetResumesAfterCall(AnyStack)

\* C17 amended: the same, for a stack whose word pushed lies in work RAM or
\* in high RAM
C17_CallRetRoundTripInRam ==
    /\ CallPushesReturnAddress(OneWordInRam)
    /\ RetResumesAfterCall(OneWordInRam)

\* C17 witness: CALL 0x0014 at 0x000F, then the RET at 0x0014, have run with
\* the stack in work RAM, and pc is back at 0x0012
C17_Witness ==
    /\ Len(op.trail) >= 2
    /\ Ago(1).o.name = "CallImm" /\ Ago(1).o.a = 20 /\ Ago(1).c.pc = 15
    /\ Ago(0).o.name = "Ret"
    /\ cpu.pc = 18 /\ cpu.sp = 57342

\* Bits 3..0 of value are 0 for the buttons of `buttons` (listed from bit 3
\* down to bit 0) that are down, and 1 for the others
LowNibbleShows(value, buttons) ==
    \A i \in 1..4 : bit(value, 4 - i) <=> buttons[i] \notin op.down

\* C18: a read of 0xFF00 returns bits 5-4 as last written; with bit 5 at 0
\* bits 3..0 show Start, Select, B, A, otherwise with bit 4 at 0 they show
\* Down, Up, Left, Right; each of those bits is 0 iff its button has been
\* pressed and not released since, and 1 otherwise
C18_JoypadReadReflectsButtons ==
    (op.name = "read" /\ op.addr = 65280 /\ op.selected # -1) =>
        /\ bit(op.result, 5) <=> bit(op.selected, 5)
        /\ bit(op.result, 4) <=> bit(op.selected, 4)
        /\ ~bit(op.selected, 5) =>
               LowNibbleShows(op.result, <<"start", "select", "b", "a">>)
        /\ (bit(op.selected, 5) /\ ~bit(op.selected, 4)) =>
               LowNibbleShows(op.result, <<"down", "up", "left", "right">>)

\* C18 witness: with A and Down held and 0x20 written, the read returned
\* 0x27: the directions selected, Down's bit 3 at 0
C18_Witness ==
    /\ op.name = "read" /\ op.addr = 65280
    /\ op.selected = 32 /\ op.down = {"a", "down"}
    /\ op.result = 39

\* The primary opcode bytes with no instruction
UndefinedOpcodes == {211, 219, 221, 227, 228, 235, 236, 237, 244, 252, 253}

\* The opcodes behind the 0xCB prefix
PrefixedOpcodes ==
    {"Rlc", "Rrc", "Rl", "Rr", "Sla", "Sra", "Swap", "Srl", "Bit", "Res", "Set"}

\* A step decodes the byte at pc: to Err, holding that byte, exactly for the
\* undefined bytes, and to a prefixed opcode for 0xCB whatever byte follows
DecodeStep ==
    op'.name = "step" =>
        /\ op'.opcode.name = "Err" <=> MmuRead(mmu, cpu.pc) \in UndefinedOpcodes
        /\ op'.opcode.name = "Err" => op'.opcode.a = MmuRead(mmu, cpu.pc)
        /\ op'.opcode.name \in PrefixedOpcodes <=> MmuRead(mmu, cpu.pc) = 203

\* C19: the decoder is total over the 256 primary opcode bytes and the 256
\* 0xCB-prefixed bytes: every byte decodes to a defined opcode or to the
\* undefined-opcode result, which is returned exactly for 0xD3, 0xDB, 0xDD,
\* 0xE3, 0xE4, 0xEB, 0xEC, 0xED, 0xF4, 0xFC and 0xFD, and for no byte after
\* the 0xCB prefix
C19_DecoderTotal == [][DecodeStep]_vars

\* C19 witness: the byte 0xFD has been fetched and found undefined
C19_Witness ==
    /\ op.name = "step"
    /\ op.opcode.name = "Err" /\ op.opcode.a = 253
    /\ MmuRead(mmu, op.pc) = 253

----------------------------------------------------------------------------
(* SpecBoot: construction of the Mmu from a boot ROM and a cartridge ROM    *)

MIN_CARTRIDGE_SIZE == 32768

\* A ROM image as construction sees it: its length, the header bytes at
\* 0x0147 (cartridge type), 0x0148 (ROM size) and 0x0149 (RAM size), and the
\* seed of its contents
RomImage(len, cartridge_type, rom_size, ram_size) ==
    [len |-> len, cartridge_type |-> cartridge_type, rom_size |-> rom_size,
     ram_size |-> ram_size, seed |-> RomSeed]

\* The outcome of a constructor: err is "" with the value built in `value`,
\* or the name of the error returned
Built(value) == [err |-> "", value |-> value]

Failed(err) == [err |-> err, value |-> [kind |-> "None"]]

\* CartridgeType::try_from: the types other than ROM only and MBC1 are "Other"
CartridgeTypeTryFrom(value) ==
    CASE value = 0 -> "RomOnly"
      [] value = 1 -> "Mbc1"
      [] value = 2 -> "Mbc1Ram"
      [] value = 3 -> "Mbc1RamBattery"
      [] value \in {5, 6, 8, 9, 11, 12, 13, 15, 16, 17, 18, 19, 25, 26, 27, 28,
                    29, 30, 32, 34, 252, 253, 254, 255} -> "Other"
      [] OTHER -> "Err"

\* Header::parse
HeaderParse(rom) ==
    IF rom.len < MIN_CARTRIDGE_SIZE THEN Failed("Undersized")
    ELSE IF CartridgeTypeTryFrom(rom.cartridge_type) = "Err"
    THEN Failed("UnrecognizedCartridgeType")
    ELSE IF rom.rom_size > 8 THEN Failed("UnrecognizedRomSize")
    ELSE IF rom.ram_size \notin {0, 2, 3, 4, 5} THEN Failed("UnrecognizedRamSize")
    ELSE Built([cartridge_type |-> CartridgeTypeTryFrom(rom.cartridge_type),
                rom_banks |-> 2 * (2 ^ rom.rom_size),
                ram_banks |-> CASE rom.ram_size = 0 -> 0
                                [] rom.ram_size = 2 -> 1
                                [] rom.ram_size = 3 -> 4
                                [] rom.ram_size = 4 -> 16
                                [] rom.ram_size = 5 -> 8])

\* RomOnly::new without its check of the ROM bank count
RomOnlyTryNewAnySize(rom, header) == Built(RomOnlyNew(rom.seed, header.ram_banks))

\* RomOnly::new
RomOnlyTryNew(rom, header) ==
    IF header.rom_banks # 2 THEN Failed("Oversized")
    ELSE Built(RomOnlyNew(rom.seed, header.ram_banks))

\* Mbc1::new
Mbc1TryNew(rom, header) ==
    IF header.rom_banks > 128 THEN Failed("Oversized")
    ELSE Built(Mbc1New(rom.seed, header.rom_banks, header.ram_banks))

\* new_cartridge, on the header parsed
CartridgeOf(rom, header) ==
    IF header.rom_banks * ROM_BANK_SIZE # rom.len THEN Failed("Size")
    ELSE IF header.cartridge_type = "RomOnly" THEN RomOnlyTryNew(rom, header)
    ELSE IF header.cartridge_type \in {"Mbc1", "Mbc1Ram", "Mbc1RamBattery"}
    THEN Mbc1TryNew(rom, header)
    ELSE Failed("UnsupportedCartridgeType")

\* new_cartridge
new_cartridge(rom) ==
    IF HeaderParse(rom).err # "" THEN HeaderParse(rom)
    ELSE CartridgeOf(rom, HeaderParse(rom).value)

\* Mmu::new, for a boot ROM of boot_len bytes
MmuTryNew(rom, boot_len) ==
    IF boot_len # BOOT_ROM_SIZE THEN Failed("BootRomSize")
    ELSE IF new_cartridge(rom).err # "" THEN new_cartridge(rom)
    ELSE Built(MmuNew(BootImage, new_cartridge(rom).value))

\* The lengths of the boot ROMs tried
BootLengths == {0, 255, 256, 257}

\* The lengths of the ROM images tried: none, one bank, a byte short of and
\* exactly 32 KiB, three banks, and 4, 8, 128 and 256 banks
RomLengths == {0, 16384, 32767, 32768, 49152, 65536, 131072, 2097152, 4194304}

\* The header bytes tried: cartridge types ROM only, the three MBC1, MBC2, an
\* unassigned one and HuC1; ROM sizes of 2, 4, 8, 128, 256 and 512 banks and
\* an unknown one; every RAM size and an unknown one
CartridgeTypeBytes == {0, 1, 2, 3, 4, 5, 255}

RomSizeBytes == {0, 1, 2, 6, 7, 8, 9}

RamSizeBytes == {0, 1, 2, 3, 4, 5}

\* Before construction: op holds the images handed to Mmu::new and mmu holds
\* no Mmu yet
BootInit ==
    /\ \E boot_len \in BootLengths, len \in RomLengths, t \in CartridgeTypeBytes,
          rs \in RomSizeBytes, ra \in RamSizeBytes :
            op = [name |-> "images", boot_len |-> boot_len,
                  rom |-> RomImage(len, t, rs, ra), err |-> ""]
    /\ mmu = [kind |-> "None"]
    /\ timers = TimersNew
    /\ cpu = CpuNew

\* Mmu::new
BootNew ==
    /\ op.name = "images"
    /\ \E r \in {MmuTryNew(op.rom, op.boot_len)} :
        /\ mmu' = r.value
        /\ op' = [op EXCEPT !.name = "new", !.err = r.err]
    /\ UNCHANGED <<timers, cpu>>

BootNext == BootNew

SpecBoot == BootInit /\ [][BootNext]_vars

\* The ROM bank count a header's ROM size byte stands for
BanksOfSizeByte(rom_size) == 2 * (2 ^ rom_size)

\* C20: construction returns an error when the boot ROM is not exactly 256
\* bytes, when the ROM is shorter than 32 KiB, when its length is not
\* rom_banks * 16 KiB, when a ROM-only cartridge has not exactly 2 banks,
\* when an MBC1 cartridge has more than 128 banks, or when the cartridge type
\* is neither ROM only nor MBC1; hence every cartridge loaded has a ROM of
\* rom_banks * 16 KiB
C20_ConstructionRejectsBadImages ==
    op.name = "new" =>
        /\ op.boot_len # 256 => op.err # ""
        /\ op.rom.len < 32 * 1024 => op.err # ""
        /\ op.rom.len # BanksOfSizeByte(op.rom.rom_size) * 16 * 1024 => op.err # ""
        /\ (op.rom.cartridge_type = 0 /\ BanksOfSizeByte(op.rom.rom_size) # 2)
               => op.err # ""
        /\ (op.rom.cartridge_type \in {1, 2, 3}
              /\ BanksOfSizeByte(op.rom.rom_size) > 128) => op.err # ""
        /\ op.rom.cartridge_type \notin {0, 1, 2, 3} => op.err # ""
        /\ op.err = "" =>
               op.rom.len = mmu.cartridge.header.rom_banks * 16 * 1024

\* C20 witness: an MBC1 image of 256 banks, 4 MiB long, behind a boot ROM of
\* 256 bytes was turned down as oversized
C20_Witness ==
    /\ op.name = "new" /\ op.boot_len = 256
    /\ op.rom.cartridge_type = 1 /\ op.rom.rom_size = 7 /\ op.rom.len = 4194304
    /\ op.err = "Oversized"

\* The value of the 8-bit operand reg before the step taken k steps ago
OperandBefore(k, reg) ==
    IF reg = "DerefHL" THEN Ago(k).hl ELSE Ago(k).c[RegField(reg)]

\* C21: for every register value and flag state, SWAP r run twice restores
\* r, CPL run twice restores A, and CCF run twice leaves C as it was before
\* the first CCF, with N and H cleared
C21_TwiceIsIdentity ==
    /\ \A reg \in {"A", "B", "C", "D", "E", "H", "L", "DerefHL"} :
            Ran(<<"Swap", "Swap">>, <<reg, reg>>) =>
                reg_value(Machine(cpu, mmu), reg) = OperandBefore(1, reg)
    /\ Ran(<<"Cpl", "Cpl">>, <<0, 0>>) => cpu.a = Ago(1).c.a
    /\ Ran(<<"Ccf", "Ccf">>, <<0, 0>>) =>
            /\ FlagIn(cpu.f, FlagC) <=> FlagIn(Ago(1).c.f, FlagC)
            /\ ~FlagIn(cpu.f, FlagN) /\ ~FlagIn(cpu.f, FlagH)

\* C21 witness: SWAP B has run twice on B = 0x12, which went through 0x21
C21_Witness ==
    /\ Ran(<<"Swap", "Swap">>, <<"B", "B">>)
    /\ Ago(1).c.b = 18 /\ Ago(0).c.b = 33 /\ cpu.b = 18

----------------------------------------------------------------------------
(* SpecRam: external cartridge RAM behind the RAM-enable register          *)

\* Cartridges with no RAM, one RAM bank and four RAM banks
RamCartridges ==
    { Mbc1New(RomSeed, 2, 0), Mbc1New(RomSeed, 2, 1), Mbc1New(RomSeed, 2, 4),
      RomOnlyNew(RomSeed, 0), RomOnlyNew(RomSeed, 1) }

\* Guest writes: RAM enable and disable, the ROM and RAM bank registers, the
\* banking mode, and bytes to the first and the last address of external RAM
RamWrites ==
    { <<0, 10>>, <<0, 0>>, <<8192, 1>>, <<8192, 3>>, <<16384, 1>>,
      <<24576, 1>>, <<24576, 0>>, <<40960, 3>>, <<40960, 5>>, <<49151, 3>> }

\* Addresses read in external RAM
RamReads == {40960, 49151}

\* The record of the bytes stored in RAM: <<bank, addr, value, stage>>, with
\* stage 0 once written, 1 once the RAM was disabled after that and 2 once it
\* was enabled again
Recorded(written, before, after, addr, value) ==
    LET on(c) == c.header.ram_banks # 0 /\ c.ram_enabled
        stored == MappedAddress(addr).kind = "ExternalRam" /\ on(before)
        staged ==
            { <<w[1], w[2], w[3],
                IF w[4] = 0 /\ on(before) /\ ~on(after) THEN 1
                ELSE IF w[4] = 1 /\ ~on(before) /\ on(after) THEN 2
                ELSE w[4]>> : w \in written }
    IN  IF stored
        THEN {w \in staged : ~(w[1] = before.ram_bank /\ w[2] = addr)}
                \cup {<<before.ram_bank, addr, value, 0>>}
        ELSE staged

RamInit ==
    /\ \E cart \in RamCartridges : mmu = MmuNew(BootImage, cart)
    /\ timers = TimersNew
    /\ cpu = CpuNew
    /\ op = [name |-> "new", addr |-> 0, value |-> 0, result |-> 0, written |-> {}]

\* A guest write to a cartridge register or to external RAM
RamWriteByte ==
    /\ ~mmu.cartridge.panicked
    /\ \E w \in RamWrites :
        /\ mmu' = MmuWrite(mmu, w[1], w[2])
        /\ op' = [name |-> "write", addr |-> w[1], value |-> w[2], result |-> 0,
                  written |-> Recorded(op.written, mmu.cartridge,
                                       mmu'.cartridge, w[1], w[2])]
    /\ UNCHANGED <<timers, cpu>>

\* A guest read of external RAM
RamReadByte ==
    /\ ~mmu.cartridge.panicked
    /\ \E addr \in RamReads :
        /\ mmu' = IF MmuReadOk(mmu, addr) THEN mmu
                  ELSE [mmu EXCEPT !.cartridge = CartAssert(FALSE, @)]
        /\ op' = [op EXCEPT !.name = "read", !.addr = addr, !.value = 0,
                            !.result = MmuRead(mmu, addr)]
    /\ UNCHANGED <<timers, cpu>>

RamNext == RamWriteByte \/ RamReadByte

SpecRam == RamInit /\ [][RamNext]_vars

\* One step of the external RAM, seen from the state before it
RamGatedStep ==
    LET c == mmu.cartridge
        off == c.header.ram_banks = 0 \/ ~c.ram_enabled
        in_ram == op'.addr \in EXTERNAL_RAM_START..(WRAM_START - 1)
    IN  /\ (op'.name = "write" /\ in_ram /\ off) => mmu'.cartridge.ram = c.ram
        /\ (op'.name = "read" /\ in_ram /\ off) =>
                /\ op'.result = CART_DEFAULT_READ_VALUE
                /\ CART_DEFAULT_READ_VALUE \in {0, 255}
        /\ (op'.name = "read" /\ in_ram /\ ~off /\ ~mmu'.cartridge.panicked) =>
                \A w \in op.written :
                    (w[1] = c.ram_bank /\ w[2] = op'.addr /\ w[4] = 2) =>
                        op'.result = w[3]

\* C26: while external RAM is disabled or absent, a RAM write changes no RAM
\* byte and a RAM read returns the one default byte (0xFF or 0x00) whatever
\* the RAM holds and whichever bank is selected; a byte written while RAM was
\* enabled is read back unchanged once RAM was disabled and enabled again
C26_DisabledRamIsInert == [][RamGatedStep]_vars

\* C26 witness: the byte 3 written to 0xA000 is read back after the RAM was
\* disabled and enabled again, a write of 5 while disabled having been dropped
C26_Witness ==
    /\ op.name = "read" /\ op.addr = 40960 /\ op.result = 3
    /\ mmu.cartridge.kind = "Mbc1" /\ mmu.cartridge.ram_enabled
    /\ <<mmu.cartridge.ram_bank, 40960, 3, 2>> \in op.written

\* C27: every address a of 0xE000-0xFDFF reads the byte that a - 0x2000 reads,
\* and a byte written to a is read back at a - 0x2000
C27_EchoRamMirrorsWorkRam ==
    op.addr \in MIRROR_WRAM_START..(OAM_START - 1) =>
        /\ op.name = "read" =>
                op.result = MmuRead(mmu, op.addr - (MIRROR_WRAM_START - WRAM_START))
        /\ op.name = "write" =>
                MmuRead(mmu, op.addr - (MIRROR_WRAM_START - WRAM_START)) = op.value

\* The bits a register of the timers or of the interrupt controller keeps:
\* all eight of TIMA and TMA, bits 0..=2 of TAC, the five InterruptFlag bits
\* of IF and IE
MeaningfulBits(addr) ==
    IF addr \in {TIMER_REG_START + 1, TIMER_REG_START + 2} THEN 255
    ELSE IF addr = TIMER_REG_END THEN 7
    ELSE 31

\* C28: a value written through the MMU to TIMA, TMA, TAC, IF or IE is
\* returned, cut to the register's meaningful bits, by the MMU read of that
\* register that follows
C28_PeripheralRegistersReadBack ==
    ( /\ op.name = "write"
      /\ op.addr \in {TIMER_REG_START + 1, TIMER_REG_START + 2, TIMER_REG_END,
                      INTERRUPT_FLAG, INTERRUPT_ENABLE_REG} ) =>
        MmuRead(mmu, op.addr) = BitAnd(op.value, MeaningfulBits(op.addr))

\* A write to DIV, seen from the state before it; TIMA is incremented the way
\* the timer increments it, 0xFF going to TMA
DivWriteStep ==
    (op'.name = "write" /\ op'.addr = "DIV_REG") =>
        LET enabled == (timers.tac \div 4) % 2 = 1
            tap_set == (timers.system_clock \div (2 ^ TapBit(timers.tac))) % 2 = 1
        IN  /\ timers'.system_clock = 0
            /\ TimersRead(timers', "DIV_REG") = 0
            /\ timers'.tima =
                    IF enabled /\ tap_set
                    THEN TimaAdvanced(timers)
                    ELSE timers.tima
            /\ timers'.tma = timers.tma
            /\ timers'.tac = timers.tac

\* C29: a write of any value to DIV sets the whole system clock to 0, so that
\* DIV reads 0, and increments TIMA exactly when the timer is enabled and the
\* tap bit TAC selects was 1 just before the write; TMA and TAC stay
C29_DivWriteResetsClock == [][DivWriteStep]_vars

\* C29 witness: with TAC = 0x05 written first, the write of 0xAB to DIV at a
\* clock with bit 3 set has cleared the clock and incremented TIMA from 0
C29_Witness ==
    /\ op.name = "write" /\ op.addr = "DIV_REG" /\ op.value = 171
    /\ op.result = 2
    /\ timers.system_clock = 0 /\ timers.tac = 5 /\ timers.tima = 1

\* The timer input for a TAC value at a system clock: enable AND the tap bit
\* that TAC selects
TimerInput(tac, clock) ==
    (tac \div 4) % 2 = 1 /\ (clock \div (2 ^ TapBit(tac))) % 2 = 1

\* A write to TAC that takes the timer input from 1 to 0 advances TIMA once
TacWriteStep ==
    (/\ op'.name = "write" /\ op'.addr = "TAC_REG"
     /\ TimerInput(timers.tac, timers.system_clock)
     /\ ~TimerInput(op'.value % 8, timers.system_clock)) =>
        timers'.tima = TimaAdvanced(timers)

\* C40: TIMA is incremented on every falling edge of (enable AND selected
\* tap bit), the edge caused by a write to TAC included: when a TAC write
\* clears the enable bit or selects another tap while the old input was 1
\* and the new one is 0, TIMA is incremented once
C40_TacWriteFallingEdge == [][TacWriteStep]_vars

\* A step that executes RETI pops the word at SP into pc, and the step after
\* it finds ime true: it dispatches the interrupt that is pending
RetiStep ==
    (op'.n = op.n + 1) =>
        /\ op'.opcode.name = "Reti" =>
                /\ cpu'.pc = MmuReadU16(mmu, cpu.sp)
                /\ cpu'.sp = WrapU16(cpu.sp + 2)
        /\ (/\ op.name = "step" /\ op.opcode.name = "Reti"
            /\ PendingInterrupt(mmu) # "None") => Dispatched

\* C30: RETI pops the 16-bit return address from the stack into PC, SP going
\* up by 2, and sets ime true at once, without the delay of EI by one
\* instruction
C30_RetiPopsAndEnables == [][RetiStep]_vars

\* A step that executes JR cc, JP cc, CALL cc or RET cc, seen from the state
\* before it: taken, it returns the branch cycles with pc at the target, CALL
\* cc having pushed the address of the next instruction (`stack` tells for
\* which SP before the CALL the pushed word is looked at) and RET cc having
\* popped its target; not taken, it returns the base cycles with pc at the
\* next instruction and leaves SP and the memory alone
ConditionalBranchStep(stack(_)) ==
    (/\ op'.n = op.n + 1
     /\ op'.opcode.name \in {"JrCond", "JPCondImm", "CallCondImm", "RetCond"}) =>
        LET o == op'.opcode
            ins == InstructionOf(o)
            next == WrapU16(cpu.pc + ins.length)
        IN  IF condition(cpu, o.a)
            THEN /\ op'.total = ins.branch_cycles
                 /\ o.name = "JrCond" =>
                        /\ cpu'.pc = (next + 65536 + o.b) % 65536
                        /\ cpu'.sp = cpu.sp
                 /\ o.name = "JPCondImm" => cpu'.pc = o.b /\ cpu'.sp = cpu.sp
                 /\ o.name = "CallCondImm" =>
                        /\ cpu'.pc = o.b
                        /\ cpu'.sp = WrapU16(cpu.sp + 65534)
                        /\ stack(cpu.sp) => MmuReadU16(mmu', cpu'.sp) = next
                 /\ o.name = "RetCond" =>
                        /\ cpu'.pc = MmuReadU16(mmu, cpu.sp)
                        /\ cpu'.sp = WrapU16(cpu.sp + 2)
            ELSE /\ op'.total = ins.cycles
                 /\ cpu'.pc = next
                 /\ cpu'.sp = cpu.sp
                 /\ mmu'.wram = mmu.wram /\ mmu'.hram = mmu.hram
                 /\ mmu'.cartridge = mmu.cartridge

\* C31 as stated: JR cc, JP cc, CALL cc and RET cc return the branch-taken
\* cycles with PC at the target when the condition holds, CALL cc pushing the
\* return address and RET cc popping it, and return the base cycles with PC
\* at the next instruction and SP and the stack unchanged when it does not
C31_ConditionalBranches == [][ConditionalBranchStep(AnyStack)]_vars

\* C31 amended: the same, the word CALL cc pushes being looked at for a
\* stack in work RAM or in high RAM
C31_ConditionalBranchesInRam == [][ConditionalBranchStep(OneWordInRam)]_vars

\* C31 witness: CALL C,0x0014 at 0x000F was taken with the stack in work RAM,
\* and RET C at 0x0014 has come back to 0x0012 for 20 cycles
C31_Witness ==
    /\ Len(op.trail) >= 2
    /\ Ago(1).o.name = "CallCondImm" /\ Ago(1).o.a = "C" /\ Ago(1).c.pc = 15
    /\ Ago(0).o.name = "RetCond" /\ op.total = 20
    /\ cpu.pc = 18 /\ cpu.sp = 57342

\* The cycles the decoder adds to the base cycles of the conditional branch
\* decoded by the last step for the branch taken
BranchSurcharge ==
    InstructionOf(op.opcode).branch_cycles - InstructionOf(op.opcode).cycles

\* C32 as stated: for JR cc, JP cc, CALL cc and RET cc the decoder's
\* branch-taken cycle count is 4 T-cycles more than its base cycle count
C32_BranchTakenCostsFourMore ==
    (/\ op.name = "step"
     /\ op.opcode.name \in {"JrCond", "JPCondImm", "CallCondImm", "RetCond"}) =>
        BranchSurcharge = 4

\* C32 amended: the branch-taken count is 4 T-cycles more than the base count
\* for JR cc and JP cc, and 12 T-cycles more for CALL cc and RET cc
C32_BranchTakenCostsFourOrTwelveMore ==
    /\ (op.name = "step" /\ op.opcode.name \in {"JrCond", "JPCondImm"}) =>
            BranchSurcharge = 4
    /\ (op.name = "step" /\ op.opcode.name \in {"CallCondImm", "RetCond"}) =>
            BranchSurcharge = 12

\* C32 witness: RET Z was decoded and taken, and the step returned 20 cycles
C32_Witness ==
    /\ op.name = "step"
    /\ op.opcode.name = "RetCond" /\ op.opcode.a = "Z"
    /\ op.total = 20

\* The opcodes that exist with an 8-bit register operand and with (HL), by
\* what the (HL) form does with the byte: read or write it once, or read it
\* and write it back
OnceFamilies ==
    {"Ld", "LdRegImm", "Add", "Adc", "Sub", "Sbc", "And", "Xor", "Or", "Cp", "Bit"}

ReadWriteFamilies ==
    {"IncReg", "DecReg", "Rlc", "Rrc", "Rl", "Rr", "Sla", "Sra", "Srl", "Swap",
     "Res", "Set"}

\* The last step decoded the (HL) form of an opcode of `families`
HLForm(families) ==
    /\ op.name = "step"
    /\ op.opcode.name \in families
    /\ IF op.opcode.name \in {"Bit", "Res", "Set"} THEN op.opcode.b = "DerefHL"
       ELSE IF op.opcode.name = "Ld"
            THEN op.opcode.a = "DerefHL" \/ op.opcode.b = "DerefHL"
       ELSE op.opcode.a = "DerefHL"

\* The register form of the (HL) form o, on the register reg
RegisterTwin(o, reg) ==
    IF o.name \in {"Bit", "Res", "Set"} THEN [o EXCEPT !.b = reg]
    ELSE IF o.name = "Ld" /\ o.b = "DerefHL" THEN [o EXCEPT !.b = reg]
    ELSE [o EXCEPT !.a = reg]

\* The step of the (HL) form returned `more` cycles more than the decoder
\* gives each register form of the opcode
CostsMoreThanTwins(more) ==
    \A reg \in {"A", "B", "C", "D", "E", "H", "L"} :
        op.total = InstructionOf(RegisterTwin(op.opcode, reg)).cycles + more

\* C33 as stated: the (HL) form of LD r,r', LD r,n, INC, DEC, the eight ALU
\* operations and the CB rotate, shift, SWAP, BIT, RES and SET families costs
\* 4 T-cycles more than the register form
C33_HLFormCostsFourMore ==
    HLForm(OnceFamilies \cup ReadWriteFamilies) => CostsMoreThanTwins(4)

\* C33 amended: the (HL) form costs 4 T-cycles more where it reads or writes
\* the byte once (LD, the ALU operations, BIT) and 8 T-cycles more where it
\* reads the byte and writes it back (INC, DEC, rotates, shifts, SWAP, RES, SET)
C33_HLFormCostsFourOrEightMore ==
    /\ HLForm(OnceFamilies) => CostsMoreThanTwins(4)
    /\ HLForm(ReadWriteFamilies) => CostsMoreThanTwins(8)

\* C33 witness: INC (HL) was executed and returned 12 cycles
C33_Witness ==
    /\ HLForm({"IncReg"})
    /\ op.total = 12

\* C34: after the unconditional JR d at address P, PC = P + 2 + d, with d a
\* signed 8-bit offset and the sum wrapping at 16 bits: the offset is added to
\* the PC already past the instruction, as for a taken JR cc
C34_JrAddsToAdvancedPc ==
    (op.name = "step" /\ op.opcode.name = "Jr") =>
        cpu.pc = (op.pc + 2 + op.opcode.a + 65536) % 65536

----------------------------------------------------------------------------
(* SpecIrq: the InterruptRegisters under writes, flag requests and          *)
(* priority queries; the registers are kept in timers.interrupts            *)

\* InterruptFlag::from_bits_truncate: the five bits that name an interrupt
interrupt_from_bits_truncate(value) == BitAnd(value, 31)

\* InterruptRegisters::write
InterruptRegistersWrite(ir, addr, value) ==
    IF addr = INTERRUPT_ENABLE_REG
    THEN [ir EXCEPT !.reg_ie = interrupt_from_bits_truncate(value)]
    ELSE [ir EXCEPT !.reg_if = interrupt_from_bits_truncate(value)]

\* InterruptManager::if_reset for InterruptRegisters
if_reset(ir, interrupt) ==
    [ir EXCEPT !.reg_if = BitAnd(@, 255 - InterruptFlagBit(interrupt))]

\* The interrupts, from the highest priority to the lowest
Interrupts == <<"VBlank", "LcdStat", "Timer", "Serial", "Joypad">>

\* The values written to IE and to IF: none, each interrupt alone, pairs of
\* neighbours, all five, all eight bits, and the three unused bits alone
IrqValues == {0, 1, 2, 4, 8, 16, 3, 6, 12, 24, 31, 255, 224}

IrqInit ==
    /\ timers = TimersNew
    /\ mmu = MmuNew(BootImage, RomOnlyNew(RomSeed, 0))
    /\ cpu = CpuNew
    /\ op = [name |-> "new", addr |-> 0, value |-> 0, result |-> ""]

\* InterruptRegisters::write
IrqWrite ==
    /\ \E addr \in {INTERRUPT_ENABLE_REG, INTERRUPT_FLAG}, value \in IrqValues :
        /\ timers' = [timers EXCEPT
                        !.interrupts = InterruptRegistersWrite(@, addr, value)]
        /\ op' = [name |-> "write", addr |-> addr, value |-> value, result |-> ""]
    /\ UNCHANGED <<mmu, cpu>>

\* InterruptManager::if_set
IrqIfSet ==
    /\ \E i \in 1..5 :
        /\ timers' = [timers EXCEPT !.interrupts = if_set(@, Interrupts[i])]
        /\ op' = [name |-> "if_set", addr |-> 0, value |-> i, result |-> ""]
    /\ UNCHANGED <<mmu, cpu>>

\* InterruptManager::if_reset
IrqIfReset ==
    /\ \E i \in 1..5 :
        /\ timers' = [timers EXCEPT !.interrupts = if_reset(@, Interrupts[i])]
        /\ op' = [name |-> "if_reset", addr |-> 0, value |-> i, result |-> ""]
    /\ UNCHANGED <<mmu, cpu>>

\* InterruptManager::priority_interrupt: it assigns to neither register
IrqPriority ==
    /\ op' = [name |-> "priority", addr |-> 0, value |-> 0,
              result |-> priority_interrupt(timers.interrupts)]
    /\ UNCHANGED <<timers, mmu, cpu>>

IrqNext == IrqWrite \/ IrqIfSet \/ IrqIfReset \/ IrqPriority

SpecIrq == IrqInit /\ [][IrqNext]_vars

\* The places in Interrupts of the interrupts both enabled in ie and
\* requested in if
Requested(ir) ==
    {i \in 1..5 : (ir.reg_ie \div (2 ^ (i - 1))) % 2 = 1
                  /\ (ir.reg_if \div (2 ^ (i - 1))) % 2 = 1}

\* A priority query, seen from the state before it
PriorityQueryStep ==
    op'.name = "priority" =>
        LET requested == Requested(timers.interrupts)
        IN  /\ op'.result = "None" <=> requested = {}
            /\ requested # {} =>
                    \E i \in requested :
                        /\ op'.result = Interrupts[i]
                        /\ \A j \in requested : i <= j
            /\ timers'.interrupts = timers.interrupts

\* C35: priority_interrupt returns None iff IE AND IF has none of its low five
\* bits set, and otherwise the set interrupt that comes first in the order
\* VBlank, LcdStat, Timer, Serial, Joypad; it changes neither IE nor IF
C35_PriorityInterruptOrder == [][PriorityQueryStep]_vars

\* C35 witness: with Timer and Serial enabled and LcdStat, Timer and Serial
\* requested, the query has returned Timer
C35_Witness ==
    /\ op.name = "priority" /\ op.result = "Timer"
    /\ timers.interrupts.reg_ie = 12 /\ timers.interrupts.reg_if = 14

----------------------------------------------------------------------------
(* The bytes a decode takes from the stream                                *)

\* Opcode::try_from and Opcode::prefix_try_from: the number of bytes fetched
\* from the ByteStream for the opcode o, the opcode byte included - one more
\* for each fetch() or fetch_i8(), two more for a fetch_u16(), and the byte
\* after 0xCB
FetchedBytes(o) ==
    IF o.name \in {"Rlc", "Rrc", "Rl", "Rr", "Sla", "Sra", "Swap", "Srl",
                   "Bit", "Res", "Set"} THEN 2
    ELSE IF o.name \in {"LdDerefImmSp", "LdWideRegImm", "JPCondImm", "LdDerefImmA",
                        "LdADerefImm", "JP", "CallCondImm", "CallImm"} THEN 3
    ELSE IF o.name \in {"Jr", "JrCond", "LdRegImm", "LdOffsetImmA", "AddSpDisp",
                        "LdAOffsetImm", "LdHLSPDisp", "AddImm", "AdcImm", "SubImm",
                        "SbcImm", "AndImm", "XorImm", "OrImm", "CpImm"} THEN 2
    ELSE 1

\* C36: for every opcode the decoder recognizes the length of the Instruction,
\* 1 to 3, is the number of bytes the decoder fetched for it, so that after a
\* step that does not branch PC is where a sequential decode of the stream
\* starts the next instruction
C36_LengthIsBytesFetched ==
    (op.name = "step" /\ op.opcode.name # "Err") =>
        /\ InstructionOf(op.opcode).length \in 1..3
        /\ InstructionOf(op.opcode).length = FetchedBytes(op.opcode)
        /\ op.opcode.name \notin {"Jr", "JrCond", "RetCond", "Ret", "Reti", "JpHL",
                                  "JPCondImm", "JP", "CallCondImm", "CallImm", "Rst"}
               => cpu.pc = WrapU16(op.pc + FetchedBytes(op.opcode))

\* C37: LD (nn),SP stores SP at nn and nn + 1, low byte first, and leaves SP
\* and every other register but PC as they were (the bytes stored are looked
\* at where nn and nn + 1 lie in work RAM or in high RAM)
C37_LdDerefImmSpStoresSp ==
    (op.name = "step" /\ op.opcode.name = "LdDerefImmSp") =>
        LET before == Ago(0).c
            nn == op.opcode.a
        IN  /\ StackInRam(WrapU16(nn + 2), 1) =>
                    /\ MmuRead(mmu, nn) = before.sp % 256
                    /\ MmuRead(mmu, WrapU16(nn + 1)) = before.sp \div 256
            /\ cpu.sp = before.sp
            /\ \A reg \in {"a", "f", "b", "c", "d", "e", "h", "l"} :
                    cpu[reg] = before[reg]

----------------------------------------------------------------------------
(* SpecFrame: the host's loop over one frame, `while cycle_count > 0        *)
(* { cycle_count -= gb.step(); }`                                           *)

\* The cycles of the frame: the prologue of a program takes 60 of them
FrameCycles == 72

\* The programs run in the frame: LD SP,0xDFFE; LD BC,0xFFFF; PUSH BC;
\* LD HL,0xC000; LD A,0x81, then every opcode byte before the bytes D3 00 (an
\* undefined opcode byte first), and every 0xCB-prefixed opcode
FramePrograms ==
    LET common == <<49, 254, 223, 1, 255, 255, 197, 33, 0, 192, 62, 129>>
    IN  {common \o <<opcode, 211, 0>> : opcode \in Byte}
            \cup {common \o <<203, n>> : n \in Byte}

FrameInit ==
    /\ \E program \in FramePrograms : mmu = MmuNew(program, RomOnlyNew(RomSeed, 1))
    /\ cpu = CpuNew
    /\ timers = TimersNew
    /\ op = [name |-> "new", opcode |-> Opc("", 0, 0), pc |-> 0, total |-> 0,
             cycle_count |-> FrameCycles]

\* One turn of the loop: GameBoy::step, its result taken from cycle_count
FrameStep ==
    /\ ~cpu.panicked
    /\ op.cycle_count > 0
    /\ \E o \in {OpcodeTryFrom(mmu, cpu.pc)} :
        \E r \in {CpuStepOf(Machine(cpu, mmu), o)} :
            /\ cpu' = r.m.cpu
            /\ mmu' = r.m.mmu
            /\ op' = [name |-> "step", opcode |-> o, pc |-> cpu.pc,
                      total |-> r.total,
                      cycle_count |-> op.cycle_count - r.total]
    /\ UNCHANGED timers

FrameNext == FrameStep

\* The loop goes on while it can: nothing but the host stops it
SpecFrame == FrameInit /\ [][FrameNext]_vars /\ WF_vars(FrameNext)

\* C38: step() returns at least 4 T-cycles in every state, for an instruction
\* and for an undefined opcode alike, so that the loop over a frame, which
\* takes each result from a positive budget, comes to an end
C38_FrameLoopTerminates ==
    /\ [](op.name = "step" => op.total >= 4)
    /\ <>(op.cycle_count <= 0)

\* C38 witness: the loop has ended on an undefined opcode byte, which it
\* stepped on more than once
C38_Witness ==
    /\ op.name = "step" /\ op.opcode.name = "Err"
    /\ op.cycle_count <= 0
    /\ op.pc = cpu.pc

====
